---- MODULE Spec2Model ----
(***************************************************************************)
(* Dependency resolution and packaging intelligence of pytron-kit:         *)
(*   - the build pipeline            (pytron/pack/pipeline.py)             *)
(*   - the side-effect graph, its builder and the dependency oracle        *)
(*                                    (pytron/pack/graph.py)               *)
(*   - the Crystal runtime auditor   (pytron/pack/crystal.py)              *)
(* Each subsystem has its own specification (SpecPipeline, SpecOracle,     *)
(* SpecAudit); the variables of the other subsystems stay at their         *)
(* initial values.                                                         *)
(***************************************************************************)
EXTENDS Integers, Sequences, FiniteSets, TLC

VARIABLES
    \* ---- Pipeline (pipeline.py) ----
    modules,      \* Pipeline.modules: registered modules, in registration order
    pc,           \* position inside Pipeline.run
    idx,          \* loop variable of the prepare / post_build loops
    chain,        \* current_build_func: the wrappers around core_build_func, outermost first
    stack,        \* modules whose wrapped() frame is active, outermost first
    flight,       \* what travels up the wrapper chain: a return code or an exception
    ret_code,     \* ret_code of line 120
    result,       \* what Pipeline.run returned
    reported,     \* the error logged by the handlers of lines 140-150
    warnings,     \* modules whose post_build failure was logged (line 133)
    calls,        \* history: the calls made so far, in order
    raised,       \* history: <<phase, m>> for every call whose own code raised
    \* ---- Graph, builder and oracle (graph.py) ----
    tree,            \* the .py files under GraphBuilder.root
    nodes,           \* SideEffectGraph.nodes: name -> Node
    edges,           \* SideEffectGraph.edges
    zones,           \* SideEffectGraph._uncertainty_zones
    oracle,          \* "none", or "ready" once DependencyOracle(graph) is constructed
    knowledge_base,  \* DependencyOracle.knowledge_base
    classifier,      \* DependencyOracle.classifier (NoModel when none is loaded)
    scans,           \* number of scan_project calls made
    injected,        \* number of direct SideEffectGraph calls made
    predicts,        \* number of predict() calls made
    unseen_calls,    \* history: zones handed to _predict_unseen_module
    clf_calls,       \* history: zones for which classifier.predict ran
    \* ---- Crystal runtime auditor (crystal.py) ----
    lock,            \* the file requirements.lock.json (AppAuditor.manifest_path)
    apc,             \* position of the parent inside AppAuditor.run_audit
    cpc,             \* position of the harness child process
    live_modules,    \* the child's live_modules
    live_files,      \* the child's live_files
    terminate_sent,  \* p.terminate() was called in this run
    kill_sent,       \* p.kill() was called in this run
    audit_result,    \* what run_audit returned
    runs,            \* number of run_audit calls completed
    dumps,           \* history: dump_manifest calls that wrote the file in this run
    child_end,       \* history: how the child of this run ended
    dumped_modules,  \* history: every module that was live at some dump
    dumped_files,    \* history: every file that was live at some dump
    at_timeout,      \* history: what the child had observed when the timeout expired
    \* ---- Site-packages introspector (introspect.py) ----
    requirements,    \* requirements.json: NoFile or its "dependencies" list
    ipc,             \* position inside determine_packaging_strategy
    clean_seeds,     \* clean_seeds of lines 296-300
    queue,           \* queue of get_recursive_dependencies
    universe,        \* universe of get_recursive_dependencies
    queried,         \* history: the names given to importlib.metadata.requires, in order
    pending,         \* packages of the universe not yet scanned by the loop of line 322
    packages,        \* lock_data["packages"]: pkg -> strategy and path
    targets,         \* collect_all_targets
    iresult,         \* what determine_packaging_strategy returned
    \* ---- Naive Bayes classifier (inference.py) ----
    feature_counts,      \* SimpleTextClassifier.feature_counts: label -> feature -> count
    class_token_counts,  \* SimpleTextClassifier.class_token_counts
    class_counts,        \* SimpleTextClassifier.class_counts
    label_order,         \* the keys of class_counts in insertion order
    total_examples,      \* SimpleTextClassifier.total_examples
    vocab,               \* SimpleTextClassifier.vocab
    scores,              \* the argument and the result of predict, when it was the last call
    trained,             \* history: <<features, label>> -> number of train calls
    \* ---- Build modules (modules.py) and their BuildContext (pipeline.py) ----
    context,         \* the BuildContext handed to the modules (NoContext before it is built)
    project,         \* what exists under context.script_dir
    prepared,        \* module -> "no", "returned", "raised": how its prepare ended
    hpc,             \* position inside HookModule.prepare
    manifest,        \* what the audit of HookModule.prepare gave
    stages,          \* history: the stages of HookModule.prepare that ran, in order
    smart_flags,     \* history: the flags the oracle stage computed
    before           \* history: add_data as it was when AssetModule.prepare was called

pvars == <<modules, pc, idx, chain, stack, flight, ret_code, result, reported, warnings, calls, raised>>

gvars == <<tree, nodes, edges, zones, oracle, knowledge_base, classifier, scans, injected, predicts,
           unseen_calls, clf_calls>>

avars == <<lock, apc, cpc, live_modules, live_files, terminate_sent, kill_sent, audit_result,
           runs, dumps, child_end, dumped_modules, dumped_files, at_timeout>>

ivars == <<requirements, ipc, clean_seeds, queue, universe, queried, pending, packages, targets,
           iresult>>

cvars == <<feature_counts, class_token_counts, class_counts, label_order, total_examples, vocab,
           scores, trained>>

mvars == <<context, project, prepared, hpc, manifest, stages, smart_flags, before>>

vars == <<pvars, gvars, avars, ivars, cvars, mvars>>

(***************************************************************************)
(* Bounds                                                                  *)
(***************************************************************************)
MaxModules == 3

\* calls of scan_project, of predict, and direct SideEffectGraph calls per run
MaxScans == 1

MaxPredicts == 2

MaxInjected == 1

\* calls of run_audit on one project directory
MaxRuns == 2

\* files under the scanned root
MaxFiles == 2

\* Return codes of the compiler backend (0 is success).
Codes == {0, 1, 2}

None == [kind |-> "none"]

(***************************************************************************)
(* Exceptions (exceptions.py).  BuildError is the base of ModuleError.     *)
(* origin is a history field: 0 for core_build_func, i for module i.       *)
(***************************************************************************)
PlainException(origin) == [kind |-> "exc", type |-> "Exception", module_name |-> 0, origin |-> origin]

ModuleError(name, cause) == [kind |-> "exc", type |-> "ModuleError", module_name |-> name, origin |-> cause.origin]

BuildError(cause) == [kind |-> "exc", type |-> "BuildError", module_name |-> 0, origin |-> cause.origin]

IsBuildError(e) == e.type \in {"BuildError", "ModuleError"}

Return(c) == [kind |-> "ret", code |-> c]

\* module.__class__.__name__ : module i is named by its registration index
ClassName(m) == m

(***************************************************************************)
(* Strings.  A string that is used as a dotted name is the sequence of     *)
(* its dot-separated segments: "pandas.core" is <<"pandas", "core">>, so   *)
(* that name.split(".")[0] is <<Head(name)>> and f"{name}.*" is            *)
(* Append(name, "*").                                                      *)
(***************************************************************************)
RootOf(name) == <<name[1]>>

Wildcard(name) == Append(name, "*")

ResourceData == <<"<resource_data>">>

NoPath == <<>>

NoModel == [loaded |-> FALSE]

(***************************************************************************)
(* The source files of the scanned projects, as ast.walk sees them.        *)
(*   Import(names)          import a, b.c                                  *)
(*   ImportFrom(module)     from module import ...  (<<>>: from . import)  *)
(*   Const(text, len, sp)   a str constant: stripped text, its length,     *)
(*                          whether it holds a blank                       *)
(*   Call(func, id, line)   a call of an attribute x.id or of a name id    *)
(***************************************************************************)
Import(names) == [k |-> "Import", names |-> names]

ImportFrom(module) == [k |-> "ImportFrom", module |-> module]

Const(text, len, sp) == [k |-> "Const", text |-> text, len |-> len, space |-> sp]

Call(func, id, line) == [k |-> "Call", func |-> func, id |-> id, line |-> line]

\* app.py
FileApp ==
    [module |-> <<"app">>, parses |-> TRUE,
     stmts |-> << Import(<< <<"pandas", "core">>, <<"os">> >>),
                  Const(<<"pandas">>, 6, FALSE),
                  Const(<<"numpy">>, 5, FALSE),
                  Const(<<"np">>, 2, FALSE),
                  Const(<<"load numpy">>, 10, TRUE),
                  Call("Attribute", "import_module", 3),
                  Call("Name", "__import__", 5),
                  Import(<< <<"os">> >>) >>]

\* pandas/__init__.py
FilePandas ==
    [module |-> <<"pandas", "__init__">>, parses |-> TRUE,
     stmts |-> << ImportFrom(<<"numpy">>),
                  ImportFrom(<<>>),
                  Const(<<"numpy">>, 5, FALSE),
                  Call("Attribute", "import_module", 2) >>]

\* plugins/__init__.py
FilePlugins ==
    [module |-> <<"plugins", "__init__">>, parses |-> TRUE,
     stmts |-> << ImportFrom(<<"json">>),
                  Import(<< <<"json">>, <<"abc">> >>),
                  ImportFrom(<<"abc">>),
                  Call("Attribute", "import_module", 7),
                  Call("Name", "import_module", 9),
                  Call("Attribute", "run", 11),
                  Const(<<"pandas">>, 6, FALSE) >>]

\* broken.py: a syntax error
FileBroken ==
    [module |-> <<"broken">>, parses |-> FALSE,
     stmts |-> << Import(<< <<"numpy">> >>), Call("Attribute", "import_module", 1) >>]

Files == {FileApp, FilePandas, FilePlugins, FileBroken}

\* Names and literals used in direct calls of the graph's methods
ApiNames == {<<"user_app">>, <<"ghost">>}

(***************************************************************************)
(* The Knowledge Base files (brain/data.json) and classifier models        *)
(* (brain/model.json) that may be installed.                               *)
(***************************************************************************)
Str(v) == [isStr |-> TRUE, v |-> v]

NonStr == [isStr |-> FALSE, v |-> <<>>]

Util(function, arguments) == [function |-> function, arguments |-> arguments]

SignalPandas ==
    [hiddenimports |-> << Str(<<"pandas", "_libs">>), NonStr, Str(<<"numpy">>) >>,
     utilities |-> << Util("collect_submodules", << Str(<<"pandas", "io">>) >>),
                      Util("collect_data_files", << Str(<<"pandas">>) >>) >>]

SignalNumpy ==
    [hiddenimports |-> << Str(<<"numpy", "core">>) >>,
     utilities |-> << Util("collect_submodules", <<>>) >>]

SignalPlugins ==
    [hiddenimports |-> <<>>,
     utilities |-> << Util("collect_submodules", << NonStr >>) >>]

EmptyKB == [key \in {} |-> SignalNumpy]

KnowledgeBases ==
    { EmptyKB,
      (<<"pandas">> :> SignalPandas),
      (<<"numpy">> :> SignalNumpy),
      (<<"pandas">> :> SignalPandas) @@ (<<"numpy">> :> SignalNumpy),
      (<<"plugins">> :> SignalPlugins) @@ (<<"pandas">> :> SignalPandas) }

\* A loaded model is represented by the ranking its predict gives for the
\* source text of each module (<<>>: a model without classes).
Model(ranking) == [loaded |-> TRUE, ranking |-> ranking]

Uniform(r) == [f \in {x.module : x \in Files} |-> r]

Classifiers ==
    { NoModel,
      Model(Uniform(<<>>)),
      Model(Uniform(<<"COLLECT_SUBMODULES", "COLLECT_DATA", "HIDDEN_IMPORTS">>)),
      Model(Uniform(<<"COLLECT_DATA", "COLLECT_SUBMODULES">>)),
      Model(Uniform(<<"HIDDEN_IMPORTS", "COLLECT_DATA">>)) }

(***************************************************************************)
(* SideEffectGraph                                                         *)
(***************************************************************************)
Edge(source, target, type, confidence, reason) ==
    [source |-> source, target |-> target, type |-> type,
     confidence |-> confidence, reason |-> reason]

Node(name, path) == [name |-> name, path |-> path, features |-> {}, literals |-> {}]

Zone(source_node, line_no, code_snippet) ==
    [source |-> source_node, line |-> line_no, code |-> code_snippet,
     heuristic |-> "dynamic_import", resolved |-> FALSE]

\* Confidences are kept as hundredths: 1.0 is 100, 0.95 is 95.
ConfStatic == 100

ConfKnowledgeBase == 95

ConfUtility == 90

ConfSubmodules == 82

ConfData == 75

ConfLiteral == 60

PipelineIdle ==
    /\ modules = <<>>
    /\ pc = "setup"
    /\ idx = 0
    /\ chain = <<>>
    /\ stack = <<>>
    /\ flight = None
    /\ ret_code = -1
    /\ result = -1
    /\ reported = None
    /\ warnings = {}
    /\ calls = <<>>
    /\ raised = {}

\* requirements.json is missing
NoFile == [exists |-> FALSE, dependencies |-> <<>>]

NotReturned == [returned |-> FALSE, flags |-> <<>>]

IntrospectIdle ==
    /\ requirements = NoFile
    /\ ipc = "idle"
    /\ clean_seeds = <<>>
    /\ queue = <<>>
    /\ universe = {}
    /\ queried = <<>>
    /\ pending = {}
    /\ packages = <<>>
    /\ targets = <<>>
    /\ iresult = NotReturned

\* No predict call was made yet
NoScores == [state |-> "none", features |-> <<>>, list |-> <<>>]

\* SimpleTextClassifier.__init__ (lines 14-24)
ClassifierIdle ==
    /\ feature_counts = <<>>
    /\ class_token_counts = <<>>
    /\ class_counts = <<>>
    /\ label_order = <<>>
    /\ total_examples = 0
    /\ vocab = {}
    /\ scores = NoScores
    /\ trained = <<>>

\* No BuildContext is built and no module's prepare runs.
NoContext == [built |-> FALSE]

NoManifest == [kind |-> "none", modules |-> {}]

ModulesIdle ==
    /\ context = NoContext
    /\ project = <<>>
    /\ prepared = <<>>
    /\ hpc = "idle"
    /\ manifest = NoManifest
    /\ stages = <<>>
    /\ smart_flags = {}
    /\ before = <<>>

\* The graph as one value, for the operators that thread it through loops.
Graph(ns, es, zs) == [nodes |-> ns, edges |-> es, zones |-> zs]

GraphIdle ==
    /\ tree = {}
    /\ nodes = <<>>
    /\ edges = <<>>
    /\ zones = <<>>
    /\ oracle = "none"
    /\ knowledge_base = EmptyKB
    /\ classifier = NoModel
    /\ scans = 0
    /\ injected = 0
    /\ predicts = 0
    /\ unseen_calls = {}
    /\ clf_calls = {}

\* SideEffectGraph.add_node (lines 51-54)
AddNode(ns, name, path) ==
    IF name \in DOMAIN ns THEN ns ELSE ns @@ (name :> Node(name, path))

\* SideEffectGraph.add_edge (lines 56-69)
AddEdgeAlways(es, source, target, type, confidence, reason) ==
    Append(es, Edge(source, target, type, confidence, reason))

AddEdge(es, source, target, type, confidence, reason) ==
    IF \E k \in 1..Len(es) :
          es[k].source = source /\ es[k].target = target /\ es[k].type = type
    THEN es
    ELSE Append(es, Edge(source, target, type, confidence, reason))

\* SideEffectGraph.mark_uncertainty (lines 71-85)
MarkUncertaintyResolved(zs, source_node, line_no, code_snippet) ==
    Append(zs, [Zone(source_node, line_no, code_snippet) EXCEPT !.resolved = TRUE])

MarkUncertainty(zs, source_node, line_no, code_snippet) ==
    Append(zs, Zone(source_node, line_no, code_snippet))

(***************************************************************************)
(* GraphBuilder                                                            *)
(***************************************************************************)
\* One syntax node of ast.walk in _visit_node (lines 141-183), for the
\* graph node named name.
RECURSIVE ImportEdgesMislabelled(_, _, _)
ImportEdgesMislabelled(es, name, names) ==
    IF names = <<>> THEN es
    ELSE ImportEdgesMislabelled(
           AddEdge(es, name, Head(names), "static", ConfStatic, <<"from_import_stmt">>),
           name, Tail(names))

RECURSIVE ImportEdges(_, _, _)
ImportEdges(es, name, names) ==
    IF names = <<>> THEN es
    ELSE ImportEdges(AddEdge(es, name, Head(names), "static", ConfStatic, <<"import_stmt">>),
                     name, Tail(names))

IsInteresting(c) == c.len > 3 /\ ~c.space

WithLiteral(ns, name, text) ==
    [ns EXCEPT ![name].literals = @ \cup {text}]

WithFeature(ns, name, feature) ==
    [ns EXCEPT ![name].features = @ \cup {feature}]

\* The ast.ImportFrom branch (lines 149-153): a statement without a module
\* (from . import x) adds nothing.
FromImportEdgeUnguarded(es, name, module) ==
    AddEdge(es, name, module, "static", ConfStatic, <<"from_import_stmt">>)

FromImportEdge(es, name, module) ==
    IF module # <<>>
    THEN AddEdge(es, name, module, "static", ConfStatic, <<"from_import_stmt">>)
    ELSE es

\* A dynamic trigger (lines 166-183): the feature is added to the node and
\* the call site is recorded as a zone; the edges are not touched.
DynamicTriggerWithEdge(g, name, feature, line, code) ==
    Graph(WithFeature(g.nodes, name, feature),
          AddEdge(g.edges, name, <<code>>, "dynamic", ConfStatic, <<"dynamic_import">>),
          MarkUncertainty(g.zones, name, line, code))

DynamicTrigger(g, name, feature, line, code) ==
    Graph(WithFeature(g.nodes, name, feature), g.edges,
          MarkUncertainty(g.zones, name, line, code))

VisitOne(g, name, st) ==
    IF st.k = "Import"
    THEN Graph(g.nodes, ImportEdges(g.edges, name, st.names), g.zones)
    ELSE IF st.k = "ImportFrom"
    THEN Graph(g.nodes, FromImportEdge(g.edges, name, st.module), g.zones)
    ELSE IF st.k = "Const"
    THEN IF IsInteresting(st)
         THEN Graph(WithLiteral(g.nodes, name, st.text), g.edges, g.zones)
         ELSE g
    ELSE IF st.k = "Call" /\ st.func = "Attribute" /\ st.id = "import_module"
    THEN DynamicTrigger(g, name, "calls_import_module", st.line, "import_module")
    ELSE IF st.k = "Call" /\ st.func = "Name" /\ st.id = "__import__"
    THEN DynamicTrigger(g, name, "calls_dunder_import", st.line, "__import__")
    ELSE g

RECURSIVE VisitNode(_, _, _)
VisitNode(g, name, stmts) ==
    IF stmts = <<>> THEN g
    ELSE VisitNode(VisitOne(g, name, Head(stmts)), name, Tail(stmts))

\* GraphBuilder._analyze_file (lines 120-135): the node is added, then the
\* file is parsed and visited; a file that does not parse is left at that.
AnalyzeFile(g, f) ==
    LET g1 == Graph(AddNode(g.nodes, f.module, f.module), g.edges, g.zones)
    IN  IF f.parses THEN VisitNode(g1, f.module, f.stmts) ELSE g1

RECURSIVE ScanFilesStopping(_, _)
ScanFilesStopping(g, files) ==
    IF files = <<>> THEN g
    ELSE IF ~Head(files).parses THEN AnalyzeFile(g, Head(files))
    ELSE ScanFilesStopping(AnalyzeFile(g, Head(files)), Tail(files))

RECURSIVE ScanFiles(_, _)
ScanFiles(g, files) ==
    IF files = <<>> THEN g
    ELSE ScanFiles(AnalyzeFile(g, Head(files)), Tail(files))

\* The orders in which rglob may yield the files of a tree.
Orders(S) ==
    {o \in [1..Cardinality(S) -> S] : \A a, b \in 1..Cardinality(S) : a # b => o[a] # o[b]}

\* GraphBuilder.scan_project (lines 114-118)
scan_project ==
    /\ oracle = "none"
    /\ scans < MaxScans
    /\ \E order \in Orders(tree) :
         LET g == ScanFiles(Graph(nodes, edges, zones), order)
         IN  /\ nodes' = g.nodes
             /\ edges' = g.edges
             /\ zones' = g.zones
    /\ scans' = scans + 1
    /\ UNCHANGED <<tree, oracle, knowledge_base, classifier, injected, predicts, unseen_calls, clf_calls>>
    /\ UNCHANGED <<pvars, avars, ivars, cvars, mvars>>

\* Direct calls of the graph's methods, as tests/demo_ml_graph.py makes
\* them before the scan: add_node with a path that is no scanned file ...
add_node ==
    /\ oracle = "none"
    /\ injected < MaxInjected
    /\ \E name \in ApiNames : nodes' = AddNode(nodes, name, NoPath)
    /\ injected' = injected + 1
    /\ UNCHANGED <<tree, edges, zones, oracle, knowledge_base, classifier, scans, predicts,
                   unseen_calls, clf_calls>>
    /\ UNCHANGED <<pvars, avars, ivars, cvars, mvars>>

\* ... and mark_uncertainty for any node name.
mark_uncertainty ==
    /\ oracle = "none"
    /\ injected < MaxInjected
    /\ \E name \in ApiNames : zones' = MarkUncertainty(zones, name, 1, "lazy_loader")
    /\ injected' = injected + 1
    /\ UNCHANGED <<tree, nodes, edges, oracle, knowledge_base, classifier, scans, predicts,
                   unseen_calls, clf_calls>>
    /\ UNCHANGED <<pvars, avars, ivars, cvars, mvars>>

(***************************************************************************)
(* DependencyOracle                                                        *)
(***************************************************************************)
\* DependencyOracle.__init__ (lines 195-233): the knowledge base and the
\* model are whatever is installed (none: {} and None).
new_oracle ==
    /\ oracle = "none"
    /\ oracle' = "ready"
    /\ knowledge_base' \in KnowledgeBases
    /\ classifier' \in Classifiers
    /\ UNCHANGED <<tree, nodes, edges, zones, scans, injected, predicts, unseen_calls, clf_calls>>
    /\ UNCHANGED <<pvars, avars, ivars, cvars, mvars>>

\* _apply_known_wisdom (lines 282-307)
RECURSIVE HiddenEdges(_, _, _, _)
HiddenEdges(es, source_name, root_package, hidden) ==
    IF hidden = <<>> THEN es
    ELSE HiddenEdges(
           IF Head(hidden).isStr
           THEN AddEdge(es, source_name, Head(hidden).v, "predicted", ConfKnowledgeBase,
                        <<"oracle_hook_knowledge_base", root_package>>)
           ELSE es,
           source_name, root_package, Tail(hidden))

RECURSIVE UtilityEdgesAnyFunction(_, _, _, _)
UtilityEdgesAnyFunction(es, source_name, root_package, utils) ==
    IF utils = <<>> THEN es
    ELSE LET util == Head(utils)
             target_arg == IF util.arguments # <<>> THEN util.arguments[1] ELSE Str(root_package)
         IN  UtilityEdgesAnyFunction(
               IF target_arg.isStr
               THEN AddEdge(es, source_name, Wildcard(target_arg.v), "predicted", ConfUtility,
                            <<"oracle_utility_signal:collect_submodules">>)
               ELSE es,
               source_name, root_package, Tail(utils))

RECURSIVE UtilityEdges(_, _, _, _)
UtilityEdges(es, source_name, root_package, utils) ==
    IF utils = <<>> THEN es
    ELSE LET util == Head(utils)
             target_arg == IF util.arguments # <<>> THEN util.arguments[1] ELSE Str(root_package)
         IN  UtilityEdges(
               IF util.function = "collect_submodules" /\ target_arg.isStr
               THEN AddEdge(es, source_name, Wildcard(target_arg.v), "predicted", ConfUtility,
                            <<"oracle_utility_signal:collect_submodules">>)
               ELSE es,
               source_name, root_package, Tail(utils))

ApplyKnownWisdom(es, source_name, root_package, signal) ==
    UtilityEdges(HiddenEdges(es, source_name, root_package, signal.hiddenimports),
                 source_name, root_package, signal.utilities)

\* _predict_unseen_module (lines 309-373).  The source text of a node is
\* read from its path: only a scanned file has one.
HasSource(node) == node.path # NoPath /\ \E f \in tree : f.module = node.path

RunsClassifier(node) == classifier.loaded /\ HasSource(node)

IsPackageInit(node) == node.path[Len(node.path)] = "__init__"

PredictUnseenModule(es, source_name, node) ==
    IF ~RunsClassifier(node) THEN es
    ELSE LET predictions == classifier.ranking[node.path] IN
         IF predictions = <<>> THEN es
         ELSE LET best_label == predictions[1]
                  reason == <<"ml_naive_bayes", best_label>>
              IN  IF best_label = "COLLECT_SUBMODULES"
                  THEN IF IsPackageInit(node)
                       THEN AddEdge(es, source_name, Wildcard(source_name), "predicted",
                                    ConfSubmodules, reason)
                       ELSE es
                  ELSE IF best_label = "COLLECT_DATA"
                  THEN AddEdge(es, source_name, ResourceData, "predicted", ConfData, reason)
                  ELSE es

\* The literal cross-reference of lines 269-278, over the literals in the
\* set's iteration order.
RECURSIVE LiteralEdgesUnseenOnly(_, _, _, _)
LiteralEdgesUnseenOnly(es, source_name, root_package, literals) ==
    IF literals = {} THEN es
    ELSE LET literal == CHOOSE l \in literals : TRUE IN
         LiteralEdgesUnseenOnly(
           IF /\ literal \in DOMAIN knowledge_base
              /\ literal # root_package
              /\ root_package \notin DOMAIN knowledge_base
           THEN AddEdge(es, source_name, literal, "predicted", ConfLiteral,
                        <<"oracle_literal_match", literal>>)
           ELSE es,
           source_name, root_package, literals \ {literal})

RECURSIVE LiteralEdges(_, _, _, _)
LiteralEdges(es, source_name, root_package, literals) ==
    IF literals = {} THEN es
    ELSE LET literal == CHOOSE l \in literals : TRUE IN
         LiteralEdges(
           IF literal \in DOMAIN knowledge_base /\ literal # root_package
           THEN AddEdge(es, source_name, literal, "predicted", ConfLiteral,
                        <<"oracle_literal_match", literal>>)
           ELSE es,
           source_name, root_package, literals \ {literal})

\* Lines 256-265: the Knowledge Base decides whether the classifier path runs.
TakesGeneralistAlways(root_package) == TRUE

TakesGeneralist(root_package) == root_package \notin DOMAIN knowledge_base

\* Line 280
Resolve(zone) == [zone EXCEPT !.resolved = TRUE]

\* The body of the loop of predict for zone number z (lines 245-280).  The
\* state threaded through the loop is the edges, the zones and the two
\* histories.
PredictZone(st, z) ==
    LET zone == st.zones[z]
        source_name == zone.source
    IN  IF source_name \notin DOMAIN nodes THEN st
        ELSE LET node == nodes[source_name]
                 root_package == RootOf(source_name)
                 generalist == TakesGeneralist(root_package)
                 es1 == IF generalist
                        THEN PredictUnseenModule(st.edges, source_name, node)
                        ELSE ApplyKnownWisdom(st.edges, source_name, root_package,
                                              knowledge_base[root_package])
                 es2 == LiteralEdges(es1, source_name, root_package, node.literals)
             IN  [edges |-> es2,
                  zones |-> [st.zones EXCEPT ![z] = Resolve(zone)],
                  unseen |-> IF generalist THEN st.unseen \cup {z} ELSE st.unseen,
                  clf |-> IF generalist /\ RunsClassifier(node) THEN st.clf \cup {z} ELSE st.clf]

RECURSIVE PredictFrom(_, _)
PredictFrom(st, z) ==
    IF z > Len(st.zones) THEN st ELSE PredictFrom(PredictZone(st, z), z + 1)

\* _predict_heuristic (lines 375-377): the fallback without a Knowledge
\* Base is an empty method.
PredictHeuristicGuessing(st) ==
    IF st.zones = <<>> THEN st
    ELSE [st EXCEPT !.edges = AddEdge(@, st.zones[1].source, Wildcard(RootOf(st.zones[1].source)),
                                      "predicted", ConfLiteral, <<"heuristic">>)]

PredictHeuristic(st) == st

\* DependencyOracle.predict (lines 235-280)
Predict(st) ==
    IF DOMAIN knowledge_base = {} THEN PredictHeuristic(st) ELSE PredictFrom(st, 1)

predict ==
    /\ oracle = "ready"
    /\ predicts < MaxPredicts
    /\ LET st == Predict([edges |-> edges, zones |-> zones,
                          unseen |-> unseen_calls, clf |-> clf_calls])
       IN  /\ edges' = st.edges
           /\ zones' = st.zones
           /\ unseen_calls' = st.unseen
           /\ clf_calls' = st.clf
    /\ predicts' = predicts + 1
    /\ UNCHANGED <<tree, nodes, oracle, knowledge_base, classifier, scans, injected>>
    /\ UNCHANGED <<pvars, avars, ivars, cvars, mvars>>


(***************************************************************************)
(* The Crystal runtime auditor                                             *)
(***************************************************************************)
\* What the audited applications import and open.
ModuleNames == {"skimage", "app.plugins"}

FileNames == {"data.bin"}

\* The lock file: absent, not parsable as JSON, or a manifest.
Absent == [kind |-> "absent", modules |-> {}, files |-> {}]

Corrupt == [kind |-> "corrupt", modules |-> {}, files |-> {}]

Manifest(ms, fs) == [kind |-> "manifest", modules |-> ms, files |-> fs]

\* existing_data of dump_manifest (lines 147-152)
ExistingData(file) == IF file.kind = "manifest" THEN file ELSE Manifest({}, {})

\* dump_manifest, lines 154-164: what is written to the lock file
DumpReplacing(file, ms, fs) == Manifest(ms, fs)

Dump(file, ms, fs) ==
    Manifest(ExistingData(file).modules \cup ms, ExistingData(file).files \cup fs)

NoResult == [kind |-> "None", modules |-> {}, files |-> {}]

Pending == [kind |-> "pending", modules |-> {}, files |-> {}]

\* run_audit lines 274-285 and 297: the value returned for the lock file found
ReadBack(file) == IF file.kind \in {"manifest", "harvest"} THEN file ELSE NoResult

\* What the child had observed when communicate timed out (history)
NotTimedOut == [reached |-> FALSE, modules |-> {}, files |-> {}]

ObservedAtTimeout(ms, fs) == [reached |-> TRUE, modules |-> ms, files |-> fs]

AuditIdle ==
    /\ lock = Absent
    /\ apc = "idle"
    /\ cpc = "none"
    /\ live_modules = {}
    /\ live_files = {}
    /\ terminate_sent = FALSE
    /\ kill_sent = FALSE
    /\ audit_result = Pending
    /\ runs = 0
    /\ dumps = 0
    /\ child_end = "none"
    /\ dumped_modules = {}
    /\ dumped_files = {}
    /\ at_timeout = NotTimedOut

ChildAlive == cpc \in {"target", "finishing"}

\* run_audit lines 233-257: the harness is written and launched; a Popen
\* that fails is caught at line 289 and None is returned.
start_audit ==
    /\ apc = "idle"
    /\ runs < MaxRuns
    /\ live_modules' = {}
    /\ live_files' = {}
    /\ terminate_sent' = FALSE
    /\ kill_sent' = FALSE
    /\ dumps' = 0
    /\ at_timeout' = NotTimedOut
    /\ \/ /\ apc' = "communicate"
          /\ cpc' = "target"
          /\ child_end' = "none"
          /\ audit_result' = Pending
          /\ UNCHANGED runs
       \/ /\ apc' = "returned"
          /\ cpc' = "none"
          /\ child_end' = "not_started"
          /\ audit_result' = NoResult
          /\ runs' = runs + 1
    /\ UNCHANGED <<lock, dumped_modules, dumped_files>>
    /\ UNCHANGED <<pvars, gvars, ivars, cvars, mvars>>

\* audit_hook (lines 49-62): an import event with its file, or an open event
audit_hook ==
    /\ ChildAlive
    /\ \/ \E m \in ModuleNames, fs \in SUBSET FileNames :
            /\ live_modules' = live_modules \cup {m}
            /\ live_files' = live_files \cup fs
       \/ \E f \in FileNames :
            /\ live_files' = live_files \cup {f}
            /\ UNCHANGED live_modules
    /\ UNCHANGED <<lock, apc, cpc, terminate_sent, kill_sent, audit_result, runs, dumps,
                   child_end, dumped_modules, dumped_files, at_timeout>>
    /\ UNCHANGED <<pvars, gvars, ivars, cvars, mvars>>

\* dump_manifest (lines 132-167) as called by the child
DoDump ==
    /\ lock' = Dump(lock, live_modules, live_files)
    /\ dumps' = dumps + 1
    /\ dumped_modules' = dumped_modules \cup live_modules
    /\ dumped_files' = dumped_files \cup live_files

\* The target script ended, normally, by SystemExit or by an exception
\* (lines 213-222): the harness dumps one last time (line 225).
script_ends ==
    /\ cpc = "target"
    /\ DoDump
    /\ cpc' = "finishing"
    /\ UNCHANGED <<apc, live_modules, live_files, terminate_sent, kill_sent, audit_result, runs,
                   child_end, at_timeout>>
    /\ UNCHANGED <<pvars, gvars, ivars, cvars, mvars>>

\* The interpreter exits: the atexit handler of line 171 dumps again.
child_exits ==
    /\ cpc = "finishing"
    /\ DoDump
    /\ cpc' = "exited"
    /\ child_end' = "exit"
    /\ UNCHANGED <<apc, live_modules, live_files, terminate_sent, kill_sent, audit_result, runs,
                   at_timeout>>
    /\ UNCHANGED <<pvars, gvars, ivars, cvars, mvars>>

\* The child dies without running any handler: os._exit, a fault in a
\* native extension, or the default action of the terminate signal.
child_crashes ==
    /\ ChildAlive
    /\ cpc' = "exited"
    /\ child_end' = IF terminate_sent THEN "terminated" ELSE "crash"
    /\ UNCHANGED <<lock, apc, live_modules, live_files, terminate_sent, kill_sent, audit_result,
                   runs, dumps, dumped_modules, dumped_files, at_timeout>>
    /\ UNCHANGED <<pvars, gvars, ivars, cvars, mvars>>

\* p.communicate(timeout=self.timeout) returned (line 262), or the
\* p.wait(timeout=2) of line 270 did: the child has ended.
child_reaped ==
    /\ apc \in {"communicate", "grace"}
    /\ cpc = "exited"
    /\ apc' = "read"
    /\ UNCHANGED <<lock, cpc, live_modules, live_files, terminate_sent, kill_sent, audit_result,
                   runs, dumps, child_end, dumped_modules, dumped_files, at_timeout>>
    /\ UNCHANGED <<pvars, gvars, ivars, cvars, mvars>>

\* TimeoutExpired of communicate (lines 263-268): p.terminate()
timeout_terminate ==
    /\ apc = "communicate"
    /\ ChildAlive
    /\ terminate_sent' = TRUE
    /\ apc' = "grace"
    /\ at_timeout' = ObservedAtTimeout(live_modules, live_files)
    /\ UNCHANGED <<lock, cpc, live_modules, live_files, kill_sent, audit_result, runs, dumps,
                   child_end, dumped_modules, dumped_files>>
    /\ UNCHANGED <<pvars, gvars, ivars, cvars, mvars>>

\* p.wait(timeout=2) raises TimeoutExpired only while the child runs (line 271)
GraceExpiredAlways == TRUE

GraceExpired == ChildAlive

\* TimeoutExpired of p.wait(timeout=2) (lines 271-272): p.kill()
grace_kill ==
    /\ apc = "grace"
    /\ GraceExpired
    /\ kill_sent' = TRUE
    /\ cpc' = "exited"
    /\ child_end' = "killed"
    /\ apc' = "read"
    /\ UNCHANGED <<lock, live_modules, live_files, terminate_sent, audit_result, runs, dumps,
                   dumped_modules, dumped_files, at_timeout>>
    /\ UNCHANGED <<pvars, gvars, ivars, cvars, mvars>>

\* Lines 274-297: the lock file is read back and run_audit returns.
read_manifest ==
    /\ apc = "read"
    /\ audit_result' = ReadBack(lock)
    /\ apc' = "returned"
    /\ runs' = runs + 1
    /\ UNCHANGED <<lock, cpc, live_modules, live_files, terminate_sent, kill_sent, dumps,
                   child_end, dumped_modules, dumped_files, at_timeout>>
    /\ UNCHANGED <<pvars, gvars, ivars, cvars, mvars>>

\* The caller asks for another audit of the same project later.
next_audit ==
    /\ apc = "returned"
    /\ runs < MaxRuns
    /\ apc' = "idle"
    /\ UNCHANGED <<lock, cpc, live_modules, live_files, terminate_sent, kill_sent, audit_result,
                   runs, dumps, child_end, dumped_modules, dumped_files, at_timeout>>
    /\ UNCHANGED <<pvars, gvars, ivars, cvars, mvars>>

GraphInit ==
    /\ ModulesIdle
    /\ PipelineIdle
    /\ AuditIdle
    /\ IntrospectIdle
    /\ ClassifierIdle
    /\ tree \in {t \in SUBSET Files : Cardinality(t) <= MaxFiles}
    /\ nodes = <<>>
    /\ edges = <<>>
    /\ zones = <<>>
    /\ oracle = "none"
    /\ knowledge_base = EmptyKB
    /\ classifier = NoModel
    /\ scans = 0
    /\ injected = 0
    /\ predicts = 0
    /\ unseen_calls = {}
    /\ clf_calls = {}

GraphNext ==
    \/ scan_project
    \/ add_node
    \/ mark_uncertainty
    \/ new_oracle
    \/ predict

SpecOracle == GraphInit /\ [][GraphNext]_vars

\* A second DependencyOracle constructed on a graph whose zones a first
\* oracle has gone through (lines 195-199): the knowledge base and the model
\* are read again from whatever is installed by then.
reload_oracle ==
    /\ oracle = "ready"
    /\ predicts >= 1
    /\ predicts < MaxPredicts
    /\ knowledge_base' \in KnowledgeBases \ {knowledge_base}
    /\ classifier' \in Classifiers
    /\ UNCHANGED <<tree, nodes, edges, zones, oracle, scans, injected, predicts, unseen_calls,
                   clf_calls>>
    /\ UNCHANGED <<pvars, avars, ivars, cvars, mvars>>

GraphReloadNext ==
    \/ scan_project
    \/ new_oracle
    \/ predict
    \/ reload_oracle

\* scan_project called once more on the same builder, the tree unchanged
\* (lines 114-118): the files are analysed again into the same graph.
scan_again ==
    /\ oracle = "none"
    /\ scans >= 1
    /\ scans <= MaxScans
    /\ \E order \in Orders(tree) :
         LET g == ScanFiles(Graph(nodes, edges, zones), order)
         IN  /\ nodes' = g.nodes
             /\ edges' = g.edges
             /\ zones' = g.zones
    /\ scans' = scans + 1
    /\ UNCHANGED <<tree, oracle, knowledge_base, classifier, injected, predicts, unseen_calls, clf_calls>>
    /\ UNCHANGED <<pvars, avars, ivars, cvars, mvars>>

GraphRescanNext ==
    \/ scan_project
    \/ scan_again
    \/ add_node
    \/ mark_uncertainty

\* A builder whose scan_project is called repeatedly.
SpecRescan == GraphInit /\ [][GraphRescanNext]_vars

\* A scanned graph and its oracles when the installed brain may change
\* between two oracles of the graph.
SpecOracleReload == GraphInit /\ [][GraphReloadNext]_vars

AuditInit ==
    /\ ModulesIdle
    /\ PipelineIdle
    /\ GraphIdle
    /\ IntrospectIdle
    /\ ClassifierIdle
    /\ lock \in {Absent, Corrupt}
    /\ apc = "idle"
    /\ cpc = "none"
    /\ live_modules = {}
    /\ live_files = {}
    /\ terminate_sent = FALSE
    /\ kill_sent = FALSE
    /\ audit_result = Pending
    /\ runs = 0
    /\ dumps = 0
    /\ child_end = "none"
    /\ dumped_modules = {}
    /\ dumped_files = {}
    /\ at_timeout = NotTimedOut

AuditNext ==
    \/ start_audit
    \/ audit_hook
    \/ script_ends
    \/ child_exits
    \/ child_crashes
    \/ child_reaped
    \/ timeout_terminate
    \/ grace_kill
    \/ read_manifest
    \/ next_audit

SpecAudit == AuditInit /\ [][AuditNext]_vars

(***************************************************************************)
(* Pipeline.__init__ / add_module                                          *)
(***************************************************************************)
PipelineInit ==
    /\ ModulesIdle
    /\ PipelineIdle
    /\ GraphIdle
    /\ AuditIdle
    /\ IntrospectIdle
    /\ ClassifierIdle

add_module ==
    /\ pc = "setup"
    /\ Len(modules) < MaxModules
    /\ modules' = Append(modules, Len(modules) + 1)
    /\ UNCHANGED <<pc, idx, chain, stack, flight, ret_code, result, reported, warnings, calls, raised>>
    /\ UNCHANGED <<gvars, avars, ivars, cvars, mvars>>

\* Pipeline.run is entered: the prepare loop starts at the first module.
run ==
    /\ pc = "setup"
    /\ pc' = "prepare"
    /\ idx' = 1
    /\ UNCHANGED <<modules, chain, stack, flight, ret_code, result, reported, warnings, calls, raised>>
    /\ UNCHANGED <<gvars, avars, ivars, cvars, mvars>>

\* The handlers of lines 140-150: a BuildError and any other exception are
\* logged and run returns 1.
Abort(e) ==
    /\ reported' = e
    /\ result' = 1
    /\ pc' = "done"

\* Lines 91-95: the exception of module m's prepare, as raised to the
\* handlers of run.
PrepareErrorUnnamed(m, e) == BuildError(e)

PrepareError(m, e) == ModuleError(ClassName(m), e)

\* One iteration of the prepare loop (lines 88-95).
prepare ==
    /\ pc = "prepare"
    /\ idx <= Len(modules)
    /\ calls' = Append(calls, <<"prepare", modules[idx]>>)
    /\ \/ /\ idx' = idx + 1
          /\ UNCHANGED <<pc, result, reported, raised>>
       \/ /\ raised' = raised \cup {<<"prepare", modules[idx]>>}
          /\ Abort(PrepareError(modules[idx], PlainException(modules[idx])))
          /\ UNCHANGED idx
    /\ UNCHANGED <<modules, chain, stack, flight, ret_code, warnings>>
    /\ UNCHANGED <<gvars, avars, ivars, cvars, mvars>>

\* Lines 98-117: the wrappers are built over reversed(self.modules), each
\* new wrapper enclosing the chain built so far.
RECURSIVE WrapAll(_, _)
WrapAll(rev, current) ==
    IF rev = <<>> THEN current
    ELSE WrapAll(Tail(rev), <<Head(rev)>> \o current)

Reversed(s) == [k \in 1..Len(s) |-> s[Len(s) + 1 - k]]

ComposeForward(ms) == WrapAll(ms, <<>>)

\* current_build_func after the loop of lines 101-117
Compose(ms) == WrapAll(Reversed(ms), <<>>)

\* The prepare loop is over: the chain is composed and called (line 120).
start_build ==
    /\ pc = "prepare"
    /\ idx > Len(modules)
    /\ chain' = Compose(modules)
    /\ pc' = "build"
    /\ stack' = <<>>
    /\ flight' = None
    /\ UNCHANGED <<modules, idx, ret_code, result, reported, warnings, calls, raised>>
    /\ UNCHANGED <<gvars, avars, ivars, cvars, mvars>>

\* wrapped(ctx), lines 104-113: what leaves module m's frame when its
\* build_wrapper ended with out.
WrappedRenaming(m, out) ==
    IF out.kind = "exc" THEN ModuleError(ClassName(m), out) ELSE out

Wrapped(m, out) ==
    IF out.kind = "exc"
    THEN IF out.type = "ModuleError" THEN out ELSE ModuleError(ClassName(m), out)
    ELSE out

\* The next function of the chain is called: a module's wrapped(), which
\* calls m.build_wrapper(ctx, func).  build_wrapper either calls func (the
\* base class, line 64), raises, or returns a code without calling func.
enter_wrapper ==
    /\ pc = "build"
    /\ flight = None
    /\ Len(stack) < Len(chain)
    /\ LET m == chain[Len(stack) + 1] IN
       \/ /\ stack' = Append(stack, m)
          /\ calls' = Append(calls, <<"enter", m>>)
          /\ UNCHANGED <<flight, raised>>
       \/ /\ flight' = Wrapped(m, PlainException(m))
          /\ raised' = raised \cup {<<"build", m>>}
          /\ calls' = Append(Append(calls, <<"enter", m>>), <<"exit", m>>)
          /\ UNCHANGED stack
       \/ /\ \E c \in Codes : flight' = Wrapped(m, Return(c))
          /\ calls' = Append(Append(calls, <<"enter", m>>), <<"exit", m>>)
          /\ UNCHANGED <<stack, raised>>
    /\ UNCHANGED <<modules, pc, idx, chain, ret_code, result, reported, warnings>>
    /\ UNCHANGED <<gvars, avars, ivars, cvars, mvars>>

\* The innermost function: core_build_func(ctx), the compiler backend.
core_build ==
    /\ pc = "build"
    /\ flight = None
    /\ Len(stack) = Len(chain)
    /\ calls' = Append(calls, <<"core", 0>>)
    /\ \/ /\ \E c \in Codes : flight' = Return(c)
          /\ UNCHANGED raised
       \/ /\ flight' = PlainException(0)
          /\ raised' = raised \cup {<<"core", 0>>}
    /\ UNCHANGED <<modules, pc, idx, chain, stack, ret_code, result, reported, warnings>>
    /\ UNCHANGED <<gvars, avars, ivars, cvars, mvars>>

\* func returned (or raised) into module m's build_wrapper: the wrapper
\* hands the result on (line 64), or fails in its own work after func
\* returned; an exception of func propagates.
exit_wrapper ==
    /\ pc = "build"
    /\ flight # None
    /\ stack # <<>>
    /\ LET m == stack[Len(stack)] IN
       /\ calls' = Append(calls, <<"exit", m>>)
       /\ stack' = SubSeq(stack, 1, Len(stack) - 1)
       /\ \/ /\ flight' = Wrapped(m, flight)
             /\ UNCHANGED raised
          \/ /\ flight.kind = "ret"
             /\ flight' = Wrapped(m, PlainException(m))
             /\ raised' = raised \cup {<<"build", m>>}
    /\ UNCHANGED <<modules, pc, idx, chain, ret_code, result, reported, warnings>>
    /\ UNCHANGED <<gvars, avars, ivars, cvars, mvars>>

\* Line 127: post_build runs only after a build that returned 0.
RunsPostBuildAlways(code) == TRUE

RunsPostBuild(code) == code = 0

\* Lines 119-127 and 138: the chain returned to run.
ChainOutcome(out) ==
    IF out.kind = "exc"
    THEN IF IsBuildError(out) THEN out ELSE BuildError(out)
    ELSE out

end_build ==
    /\ pc = "build"
    /\ flight # None
    /\ stack = <<>>
    /\ LET out == ChainOutcome(flight) IN
       IF out.kind = "exc"
       THEN /\ Abort(out)
            /\ UNCHANGED <<ret_code, idx>>
       ELSE /\ ret_code' = out.code
            /\ IF RunsPostBuild(out.code)
               THEN /\ pc' = "post"
                    /\ idx' = 1
                    /\ UNCHANGED result
               ELSE /\ pc' = "done"
                    /\ result' = out.code
                    /\ UNCHANGED idx
            /\ UNCHANGED reported
    /\ flight' = None
    /\ UNCHANGED <<modules, chain, stack, warnings, calls, raised>>
    /\ UNCHANGED <<gvars, avars, ivars, cvars, mvars>>

\* One iteration of the post_build loop (lines 128-136): a failure is
\* logged as a warning and the loop goes on.
PostNextStopping(i, raises) == IF raises THEN Len(modules) + 1 ELSE i + 1

PostNext(i, raises) == i + 1

post_build ==
    /\ pc = "post"
    /\ idx <= Len(modules)
    /\ calls' = Append(calls, <<"post_build", modules[idx]>>)
    /\ \E raises \in BOOLEAN :
         /\ warnings' = IF raises THEN warnings \cup {modules[idx]} ELSE warnings
         /\ raised' = IF raises THEN raised \cup {<<"post_build", modules[idx]>>} ELSE raised
         /\ idx' = PostNext(idx, raises)
    /\ UNCHANGED <<modules, pc, chain, stack, flight, ret_code, result, reported>>
    /\ UNCHANGED <<gvars, avars, ivars, cvars, mvars>>

\* return ret_code (line 138)
PostResultFailing(code, w) == IF w # {} THEN 1 ELSE code

PostResult(code, w) == code

finish ==
    /\ pc = "post"
    /\ idx > Len(modules)
    /\ result' = PostResult(ret_code, warnings)
    /\ pc' = "done"
    /\ UNCHANGED <<modules, idx, chain, stack, flight, ret_code, reported, warnings, calls, raised>>
    /\ UNCHANGED <<gvars, avars, ivars, cvars, mvars>>

PipelineNext ==
    \/ add_module
    \/ run
    \/ prepare
    \/ start_build
    \/ enter_wrapper
    \/ core_build
    \/ exit_wrapper
    \/ end_build
    \/ post_build
    \/ finish

SpecPipeline == PipelineInit /\ [][PipelineNext]_vars

(***************************************************************************)
(* Pipeline: helpers of the properties                                     *)
(***************************************************************************)
\* The modules named by the events of one kind, in call order.
Called(kind) ==
    LET ev == SelectSeq(calls, LAMBDA c : c[1] = kind)
    IN  [k \in 1..Len(ev) |-> ev[k][2]]

IsPrefix(s, t) == Len(s) <= Len(t) /\ s = SubSeq(t, 1, Len(s))

Positions(kind) == {p \in 1..Len(calls) : calls[p][1] = kind}

BuildKinds == {"enter", "core", "exit"}

BuildPositions == {p \in 1..Len(calls) : calls[p][1] \in BuildKinds}

C2_FirstIsOutermost ==
    /\ pc \in {"build", "post", "done"} /\ BuildPositions # {} => chain = modules
    /\ IsPrefix(Called("enter"), modules)
    /\ Cardinality(Positions("core")) <= 1
    /\ Positions("core") # {} =>
         /\ Called("enter") = modules
         /\ \A p \in Positions("enter"), q \in Positions("core") : p < q
         /\ \A p \in Positions("exit"), q \in Positions("core") : q < p
         /\ IsPrefix(Called("exit"), Reversed(modules))
         /\ pc \in {"post", "done"} => Called("exit") = Reversed(modules)

C2_Witness ==
    /\ pc = "done"
    /\ Len(modules) >= 2
    /\ Positions("core") # {}
    /\ Called("exit") = Reversed(modules)

\* C3: a post_build that raises after a build that returned 0 is only
\* logged as a warning: run still returns 0.
C3_PostBuildFailureIsolated ==
    (pc = "done" /\ ret_code = 0) => (result = 0 /\ reported = None)

C3_Witness ==
    /\ pc = "done"
    /\ ret_code = 0
    /\ \E m \in 1..Len(modules) : <<"post_build", m>> \in raised
    /\ warnings # {}
    /\ result = 0

C4_PrepareFailureAborts ==
    \A m \in 1..Len(modules) :
        <<"prepare", m>> \in raised =>
            /\ pc = "done"
            /\ result = 1
            /\ reported.kind = "exc"
            /\ reported.type = "ModuleError"
            /\ reported.module_name = ClassName(m)
            /\ calls[Len(calls)] = <<"prepare", m>>
            /\ BuildPositions = {}
            /\ Positions("post_build") = {}

C4_Witness ==
    /\ Len(modules) >= 2
    /\ <<"prepare", 1>> \in raised
    /\ result = 1

\* C5: when module m's own build_wrapper raises, no post_build is called,
\* run returns 1 and the reported ModuleError names m, whatever the number
\* of outer wrappers the error passed through.
C5_BuildFailureNamesOwner ==
    \A m \in 1..Len(modules) :
        (<<"build", m>> \in raised /\ pc = "done") =>
            /\ result = 1
            /\ Positions("post_build") = {}
            /\ reported.kind = "exc"
            /\ reported.type = "ModuleError"
            /\ reported.module_name = ClassName(m)

C5_Witness ==
    /\ pc = "done"
    /\ Len(modules) >= 2
    /\ <<"build", Len(modules)>> \in raised
    /\ reported.kind = "exc"
    /\ reported.module_name = ClassName(Len(modules))

\* C37: when the core build function itself raises, with one or more
\* modules registered whose wrappers merely call build_func, the run
\* reports a core build failure: a BuildError that carries no module's name.
C37_CoreFailureUnattributed ==
    (pc = "done" /\ <<"core", 0>> \in raised /\ Len(modules) >= 1) =>
        /\ result = 1
        /\ reported.kind = "exc"
        /\ reported.origin = 0
        /\ reported.type = "BuildError"
        /\ \A m \in 1..Len(modules) : reported.module_name # ClassName(m)

(***************************************************************************)
(* Oracle: properties                                                      *)
(***************************************************************************)
PredictedEdges == {k \in 1..Len(edges) : edges[k].type = "predicted"}

ZoneRootKnown(z) == RootOf(zones[z].source) \in DOMAIN knowledge_base

\* C6: oracle idempotence: with the graph, the Knowledge Base and the model
\* fixed, a predict() call that is not the first leaves the edge list
\* exactly as it was: nothing added, removed, changed or duplicated.
C6_PredictIdempotent ==
    [][(predicts >= 1 /\ predicts' = predicts + 1) => edges' = edges]_vars

C6_Witness ==
    /\ predicts >= 2
    /\ Cardinality(PredictedEdges) >= 2
    /\ \E a, b \in 1..Len(zones) : a # b /\ zones[a].source = zones[b].source

\* C7: after predict() returns every uncertainty zone is resolved, for
\* every Knowledge Base content (an empty one included) and every zone
\* (one whose owning node is not in the graph included).
C7_AllZonesResolved ==
    predicts >= 1 => \A z \in 1..Len(zones) : zones[z].resolved

\* C8: Knowledge Base precedence: the Generalist path
\* (_predict_unseen_module, classifier.predict) never runs for a zone whose
\* owning node's root package is a Knowledge Base key.
C8_KnowledgeBasePrecedence ==
    \A z \in unseen_calls \cup clf_calls : z \in 1..Len(zones) /\ ~ZoneRootKnown(z)

C8_Witness ==
    /\ predicts >= 1
    /\ clf_calls # {}
    /\ \E z \in 1..Len(zones) :
         /\ ZoneRootKnown(z)
         /\ zones[z].resolved
         /\ zones[z].source \in DOMAIN nodes
         /\ z \notin unseen_calls

C10_FailedAuditReturnsNone ==
    (/\ apc = "returned"
     /\ \/ child_end \in {"crash", "not_started"} /\ dumps = 0
        \/ lock.kind = "absent"
        \/ lock.kind = "corrupt")
    => audit_result = NoResult

\* C11: when the child is still running at the timeout, what it had
\* observed by then is dumped into the lock file before the parent reads
\* it: run_audit returns a manifest that holds those modules and files,
\* however the child ended after the terminate signal.
C11_TimeoutHarvest ==
    (apc = "returned" /\ at_timeout.reached) =>
        /\ audit_result.kind = "manifest"
        /\ at_timeout.modules \subseteq audit_result.modules
        /\ at_timeout.files \subseteq audit_result.files

\* C12: cancellation is a two-stage escalation: terminate is sent only to
\* a child that outlived the timeout, kill only after terminate and only to
\* a child that outlived the grace window; a child that has exited gets no
\* signal, so one that exits within the timeout receives neither and one
\* that exits within the grace window is never killed.
C12_TwoStageEscalation ==
    /\ [][(terminate_sent' /\ ~terminate_sent) =>
            (apc = "communicate" /\ ChildAlive /\ ~kill_sent')]_vars
    /\ [][(kill_sent' /\ ~kill_sent) =>
            (terminate_sent /\ apc = "grace" /\ ChildAlive)]_vars
    /\ [][(cpc = "exited" /\ cpc' = "exited") =>
            (terminate_sent' = terminate_sent /\ kill_sent' = kill_sent)]_vars
    /\ [](kill_sent => (terminate_sent /\ child_end = "killed"))
    /\ [](child_end \in {"exit", "crash", "terminated"} => ~kill_sent)
    /\ [](child_end = "crash" => ~terminate_sent)

C12_Witness ==
    /\ apc = "returned"
    /\ runs = 2
    /\ terminate_sent
    /\ kill_sent
    /\ child_end = "killed"

(***************************************************************************)
(* The site-packages introspector (introspect.py)                          *)
(*                                                                         *)
(* A requirement or seed string is the sequence of its tokens: a name or   *)
(* version is one token, every other character is a token of its own, so   *)
(* "numpy>=1.22" is <<"numpy", ">", "=", "1.22">>.                         *)
(***************************************************************************)
MaxSeeds == 2

Name(n) == <<n>>

\* The positions at which sep occurs in s
Occurrences(s, sep) ==
    {i \in 1..(Len(s) - Len(sep) + 1) : SubSeq(s, i, i + Len(sep) - 1) = sep}

Least(S) == CHOOSE i \in S : \A j \in S : i <= j

\* s.split(sep)[0]
SplitHead(s, sep) ==
    IF Occurrences(s, sep) = {} THEN s
    ELSE SubSeq(s, 1, Least(Occurrences(s, sep)) - 1)

\* s.strip()
RECURSIVE Strip(_)
Strip(s) ==
    IF s = <<>> THEN s
    ELSE IF Head(s) = " " THEN Strip(Tail(s))
    ELSE IF s[Len(s)] = " " THEN Strip(SubSeq(s, 1, Len(s) - 1))
    ELSE s

\* s.lower()
LowerOf(t) == IF t = "NumPy" THEN "numpy" ELSE t

Lower(s) == [i \in 1..Len(s) |-> LowerOf(s[i])]

Contains(s, t) == \E i \in 1..Len(s) : s[i] = t

\* A chain of string methods x.f().g() is written The({g(b) : b \in {f(x)}}):
\* each method is applied to the value of the one before it.
The(S) == CHOOSE x \in S : TRUE

\* Line 108: pkg.split("==")[0].split(">")[0].split("<")[0].strip().lower()
CleanPkg(pkg) ==
    The({Lower(d) : d \in
      {Strip(c) : c \in
        {SplitHead(b, <<"<">>) : b \in
          {SplitHead(a, <<">">>) : a \in {SplitHead(pkg, <<"=", "=">>)}}}}})

\* Line 121: req.split(" ")[0].split(";")[0].strip()
ReqName(req) ==
    The({Strip(b) : b \in {SplitHead(a, <<";">>) : a \in {SplitHead(req, <<" ">>)}}})

\* Lines 297-301: the seeds of requirements.json, cleaned; paths are dropped
CleanSeed(s) ==
    The({Strip(c) : c \in
      {SplitHead(b, <<"<">>) : b \in
        {SplitHead(a, <<">">>) : a \in {SplitHead(s, <<"=", "=">>)}}}})

RECURSIVE CleanSeeds(_)
CleanSeeds(seeds) ==
    IF seeds = <<>> THEN <<>>
    ELSE LET c == CleanSeed(Head(seeds)) IN
         IF ~Contains(c, "/") /\ ~Contains(c, "\\")
         THEN <<c>> \o CleanSeeds(Tail(seeds))
         ELSE CleanSeeds(Tail(seeds))

(***************************************************************************)
(* The environment: the distributions installed in site-packages, as       *)
(* importlib.metadata presents them, and the directories below it.         *)
(*   name         metadata["Name"]                                         *)
(*   requires     the Requires-Dist strings (NoRequires: requires() is     *)
(*                None)                                                    *)
(*   first_file   the directory of files[0], relative to site-packages     *)
(*   top_level    the directory the distribution installs: its import name *)
(***************************************************************************)
NoRequires == [none |-> TRUE, list |-> <<>>]

Requires(list) == [none |-> FALSE, list |-> list]

Dist(name, requires, first_file, top_level) ==
    [name |-> name, requires |-> requires, first_file |-> first_file, top_level |-> top_level]

Installed ==
    ("insightface" :> Dist("insightface",
                           Requires(<< Name("NumPy"), Name("scikit-image") >>),
                           <<"insightface">>, "insightface"))
    @@ ("scikit-image" :> Dist("scikit-image",
                               Requires(<< <<"numpy", ">", "=", "1.22">>,
                                           <<"lazy_loader", " ", "(", ">", "=", "0.3", ")">> >>),
                               <<"skimage">>, "skimage"))
    @@ ("numpy" :> Dist("numpy", NoRequires, <<"numpy">>, "numpy"))
    @@ ("lazy-loader" :> Dist("lazy_loader", Requires(<<>>), <<"lazy_loader">>, "lazy_loader"))
    @@ ("onnx" :> Dist("onnx", Requires(<< Name("onnxruntime"), Name("numpy") >>),
                       <<"onnx">>, "onnx"))
    @@ ("onnxruntime" :> Dist("onnxruntime",
                              Requires(<< <<"onnx", ";", " ", "extra", " ", "=", "=", " ", "'train'">> >>),
                              <<"onnxruntime">>, "onnxruntime"))
    @@ ("google-cloud-storage" :> Dist("google-cloud-storage",
                                       Requires(<< <<"requests", "~", "=", "2.31">> >>),
                                       <<"google", "cloud", "storage">>, "google"))
    @@ ("requests" :> Dist("requests", Requires(<<>>), <<"requests">>, "requests"))

\* The name under which importlib.metadata finds a distribution: runs of
\* "-", "_" and "." are one "-"
Canon(t) == IF t = "lazy_loader" THEN "lazy-loader" ELSE t

\* package_name.replace("-", "_")
Underscore(t) ==
    IF t = "scikit-image" THEN "scikit_image"
    ELSE IF t = "google-cloud-storage" THEN "google_cloud_storage"
    ELSE IF t = "lazy-loader" THEN "lazy_loader"
    ELSE t

\* The directories below site-packages: the number of .pyd/.so files under
\* each and what its __init__.py holds ("none": there is no __init__.py).
Dir(natives, init) == [natives |-> natives, init |-> init]

Dirs ==
    (<<"insightface">> :> Dir(3, "plain"))
    @@ (<<"skimage">> :> Dir(10, "lazy_loader"))
    @@ (<<"numpy">> :> Dir(12, "dynamic"))
    @@ (<<"lazy_loader">> :> Dir(0, "plain"))
    @@ (<<"onnx">> :> Dir(15, "plain"))
    @@ (<<"onnxruntime">> :> Dir(18, "plain"))
    @@ (<<"google">> :> Dir(0, "none"))
    @@ (<<"google", "cloud", "storage">> :> Dir(0, "dynamic"))
    @@ (<<"requests">> :> Dir(0, "plain"))

\* The single-file modules (name.py) in site-packages
PyFiles == {"six"}

NativeThreshold == 15

well_known_safe == {"numpy", "torch", "pandas", "matplotlib", "setuptools", "pkg_resources"}

NotResolved == [found |-> FALSE, is_dir |-> FALSE, path |-> <<>>]

ResolvedDir(path) == [found |-> TRUE, is_dir |-> TRUE, path |-> path]

ResolvedFile(path) == [found |-> TRUE, is_dir |-> FALSE, path |-> path]

\* resolve_package_path (lines 58-96): the three candidates, then the
\* directory of the first recorded file of the distribution of that name.
ResolvePackagePath(package_name) ==
    IF Len(package_name) # 1 THEN NotResolved
    ELSE LET t == package_name[1] IN
         IF <<t>> \in DOMAIN Dirs THEN ResolvedDir(<<t>>)
         ELSE IF t \in PyFiles THEN ResolvedFile(<<t, ".py">>)
         ELSE IF <<Underscore(t)>> \in DOMAIN Dirs THEN ResolvedDir(<<Underscore(t)>>)
         ELSE IF \E k \in DOMAIN Installed : Installed[k].name = t
         THEN ResolvedDir(Installed[CHOOSE k \in DOMAIN Installed : Installed[k].name = t].first_file)
         ELSE NotResolved

\* resolved_path.name
PathName(r) == r.path[Len(r.path)]

\* analyze_package (lines 130-222)
AnalyzePackageInclusive(package_name) ==
    LET r == ResolvePackagePath(package_name) IN
    IF ~r.found \/ ~r.is_dir THEN "STANDARD"
    ELSE LET d == Dirs[r.path] IN
         IF d.natives >= NativeThreshold THEN "COLLECT_ALL"
         ELSE IF d.init = "lazy_loader" THEN "COLLECT_ALL"
         ELSE IF d.init = "dynamic" /\ LowerOf(package_name[1]) \notin well_known_safe
         THEN "COLLECT_ALL"
         ELSE "STANDARD"

AnalyzePackage(package_name) ==
    LET r == ResolvePackagePath(package_name) IN
    IF ~r.found \/ ~r.is_dir THEN "STANDARD"
    ELSE LET d == Dirs[r.path] IN
         IF d.natives > NativeThreshold THEN "COLLECT_ALL"
         ELSE IF d.init = "lazy_loader" THEN "COLLECT_ALL"
         ELSE IF d.init = "dynamic" /\ LowerOf(package_name[1]) \notin well_known_safe
         THEN "COLLECT_ALL"
         ELSE "STANDARD"

\* importlib.metadata.requires(clean_pkg) (lines 116-126): PackageNotFoundError
\* is caught
NotFound == [found |-> FALSE, requires |-> NoRequires]

MetadataRequires(clean_pkg) ==
    IF Len(clean_pkg) = 1 /\ Canon(clean_pkg[1]) \in DOMAIN Installed
    THEN [found |-> TRUE, requires |-> Installed[Canon(clean_pkg[1])].requires]
    ELSE NotFound

\* Lines 118-123: the requirement names appended to the queue
RECURSIVE Enqueued(_, _)
Enqueued(requires, seen) ==
    IF requires = <<>> THEN <<>>
    ELSE LET req_name == ReqName(Head(requires)) IN
         IF req_name # <<>> /\ Lower(req_name) \notin seen
         THEN <<req_name>> \o Enqueued(Tail(requires), seen)
         ELSE Enqueued(Tail(requires), seen)

\* The requirements.json files of the projects
SeedStrings ==
    { <<"insightface", "=", "=", "0.7">>,
      Name("onnx"),
      Name("google-cloud-storage"),
      Name("lazy-loader"),
      Name("tkinter"),
      <<".", "/", "vendor">> }

SeedLists == UNION {[1..n -> SeedStrings] : n \in 0..MaxSeeds}

File(dependencies) == [exists |-> TRUE, dependencies |-> dependencies]

Returned(flags) == [returned |-> TRUE, flags |-> flags]

\* determine_packaging_strategy, lines 289-306: the file is read, the seeds
\* are cleaned and get_recursive_dependencies starts (lines 103-104).
read_requirements ==
    /\ ipc = "idle"
    /\ IF ~requirements.exists
       THEN /\ iresult' = Returned(<<>>)
            /\ ipc' = "returned"
            /\ UNCHANGED <<clean_seeds, queue, universe>>
       ELSE /\ clean_seeds' = CleanSeeds(requirements.dependencies)
            /\ queue' = clean_seeds'
            /\ universe' = {}
            /\ ipc' = "expand"
            /\ UNCHANGED iresult
    /\ UNCHANGED <<requirements, queried, pending, packages, targets>>
    /\ UNCHANGED <<pvars, gvars, avars, cvars, mvars>>

\* Lines 110-111: a name that is in the universe is skipped
VisitedNever(clean_pkg, univ) == FALSE

Visited(clean_pkg, univ) == clean_pkg \in univ

\* One iteration of the loop of get_recursive_dependencies (lines 106-126)
expand_step ==
    /\ ipc = "expand"
    /\ queue # <<>>
    /\ LET clean_pkg == CleanPkg(Head(queue)) IN
       IF Visited(clean_pkg, universe)
       THEN /\ queue' = Tail(queue)
            /\ UNCHANGED <<universe, queried>>
       ELSE /\ universe' = universe \cup {clean_pkg}
            /\ queried' = Append(queried, clean_pkg)
            /\ queue' = Tail(queue) \o Enqueued(MetadataRequires(clean_pkg).requires.list,
                                                universe \cup {clean_pkg})
    /\ UNCHANGED <<requirements, ipc, clean_seeds, pending, packages, targets, iresult>>
    /\ UNCHANGED <<pvars, gvars, avars, cvars, mvars>>

\* The queue is empty: the universe is returned (line 128) and the scan of
\* lines 311-322 starts.
expand_done ==
    /\ ipc = "expand"
    /\ queue = <<>>
    /\ ipc' = "scan"
    /\ pending' = universe
    /\ packages' = <<>>
    /\ targets' = <<>>
    /\ UNCHANGED <<requirements, clean_seeds, queue, universe, queried, iresult>>
    /\ UNCHANGED <<pvars, gvars, avars, cvars, mvars>>

\* Lines 332-343: the flag of a COLLECT_ALL package
FlagTarget(pkg, resolved_path) ==
    IF resolved_path.found THEN PathName(resolved_path) ELSE pkg

\* One iteration of the loop over the universe (lines 323-343), in the
\* set's iteration order.
scan_package ==
    /\ ipc = "scan"
    /\ \E pkg \in pending :
         LET strategy == AnalyzePackage(pkg)
             resolved_path == ResolvePackagePath(pkg)
         IN  /\ packages' = packages @@ (pkg :> [strategy |-> strategy, path |-> resolved_path])
             /\ targets' = IF strategy = "COLLECT_ALL"
                           THEN Append(targets, FlagTarget(pkg, resolved_path))
                           ELSE targets
             /\ pending' = pending \ {pkg}
    /\ UNCHANGED <<requirements, ipc, clean_seeds, queue, universe, queried, iresult>>
    /\ UNCHANGED <<pvars, gvars, avars, cvars, mvars>>

\* A filesystem call made for a package outside every inner try block
\* raises OSError (c.exists() of line 68, path.is_dir() of line 135, rglob of
\* line 147: permission denied, name too long, I/O error): the exception
\* leaves the loop and reaches the handler of lines 353-355, which returns
\* [] without writing the lock file.
scan_raises ==
    /\ ipc = "scan"
    /\ pending # {}
    /\ iresult' = Returned(<<>>)
    /\ ipc' = "returned"
    /\ UNCHANGED <<requirements, clean_seeds, queue, universe, queried, pending, packages, targets>>
    /\ UNCHANGED <<pvars, gvars, avars, cvars, mvars>>

\* Lines 345-357: the lock file is written next to requirements.json (a
\* failed write is only logged) and the flags are returned.
HarvestLock(seeds, univ, pkgs) ==
    [kind |-> "harvest", modules |-> {}, files |-> {},
     seeds |-> seeds, universe |-> univ, packages |-> pkgs]

write_lock ==
    /\ ipc = "scan"
    /\ pending = {}
    /\ \/ lock' = HarvestLock(clean_seeds, universe, packages)
       \/ UNCHANGED lock
    /\ iresult' = Returned(targets)
    /\ ipc' = "returned"
    /\ UNCHANGED <<requirements, clean_seeds, queue, universe, queried, pending, packages, targets>>
    /\ UNCHANGED <<apc, cpc, live_modules, live_files, terminate_sent, kill_sent, audit_result,
                   runs, dumps, child_end, dumped_modules, dumped_files, at_timeout>>
    /\ UNCHANGED <<pvars, gvars, cvars, mvars>>

IntrospectInit ==
    /\ ModulesIdle
    /\ PipelineIdle
    /\ GraphIdle
    /\ AuditIdle
    /\ ClassifierIdle
    /\ requirements \in {NoFile} \cup {File(s) : s \in SeedLists}
    /\ ipc = "idle"
    /\ clean_seeds = <<>>
    /\ queue = <<>>
    /\ universe = {}
    /\ queried = <<>>
    /\ pending = {}
    /\ packages = <<>>
    /\ targets = <<>>
    /\ iresult = NotReturned

IntrospectNext ==
    \/ read_requirements
    \/ expand_step
    \/ expand_done
    \/ scan_package
    \/ scan_raises
    \/ write_lock

SpecIntrospect == IntrospectInit /\ [][IntrospectNext]_vars

(***************************************************************************)
(* One project directory used by both the Auditor and the Introspector:    *)
(* requirements.json lies next to the audited script, so manifest_path     *)
(* (crystal.py line 21) and lock_file (introspect.py line 346) are the     *)
(* same file requirements.lock.json.  The two are called one after the     *)
(* other, in either order.                                                 *)
(***************************************************************************)
SharedLockInit ==
    /\ ModulesIdle
    /\ PipelineIdle
    /\ GraphIdle
    /\ ClassifierIdle
    /\ lock = Absent
    /\ apc = "idle"
    /\ cpc = "none"
    /\ live_modules = {}
    /\ live_files = {}
    /\ terminate_sent = FALSE
    /\ kill_sent = FALSE
    /\ audit_result = Pending
    /\ runs = 0
    /\ dumps = 0
    /\ child_end = "none"
    /\ dumped_modules = {}
    /\ dumped_files = {}
    /\ at_timeout = NotTimedOut
    /\ requirements \in {File(<<Name("onnx")>>), File(<<Name("lazy-loader")>>)}
    /\ ipc = "idle"
    /\ clean_seeds = <<>>
    /\ queue = <<>>
    /\ universe = {}
    /\ queried = <<>>
    /\ pending = {}
    /\ packages = <<>>
    /\ targets = <<>>
    /\ iresult = NotReturned

\* No call of the other component is under way.
AuditorQuiet == apc \in {"idle", "returned"}

IntrospectorQuiet == ipc \in {"idle", "returned"}

SharedLockNext ==
    \/ IntrospectorQuiet /\ start_audit
    \/ IntrospectorQuiet /\ audit_hook
    \/ IntrospectorQuiet /\ script_ends
    \/ IntrospectorQuiet /\ child_exits
    \/ IntrospectorQuiet /\ child_crashes
    \/ IntrospectorQuiet /\ child_reaped
    \/ IntrospectorQuiet /\ timeout_terminate
    \/ IntrospectorQuiet /\ grace_kill
    \/ IntrospectorQuiet /\ read_manifest
    \/ IntrospectorQuiet /\ next_audit
    \/ AuditorQuiet /\ read_requirements
    \/ AuditorQuiet /\ expand_step
    \/ AuditorQuiet /\ expand_done
    \/ AuditorQuiet /\ scan_package
    \/ AuditorQuiet /\ scan_raises
    \/ AuditorQuiet /\ write_lock

SpecSharedLock == SharedLockInit /\ [][SharedLockNext]_vars

\* The scheduler of one call: a step that can be taken is taken.
SpecIntrospectFair == SpecIntrospect /\ WF_vars(IntrospectNext)

(***************************************************************************)
(* Introspector: properties                                                *)
(***************************************************************************)
\* The directory a package installs under site-packages: its import name
ImportName(pkg) ==
    IF Canon(pkg[1]) \in DOMAIN Installed THEN Installed[Canon(pkg[1])].top_level ELSE pkg[1]

CollectAll == {pkg \in DOMAIN packages : packages[pkg].strategy = "COLLECT_ALL"}

Flags == {targets[k] : k \in 1..Len(targets)}

\* The package a requirement string declares: the name it starts with
DeclaredName(req) == Name(LowerOf(Head(req)))

DeclaredBy(S) ==
    UNION {{DeclaredName(MetadataRequires(m).requires.list[k]) :
              k \in 1..Len(MetadataRequires(m).requires.list)} : m \in S}

RECURSIVE Reachable(_)
Reachable(S) == IF DeclaredBy(S) \subseteq S THEN S ELSE Reachable(S \cup DeclaredBy(S))

SeedNames == {CleanPkg(clean_seeds[k]) : k \in 1..Len(clean_seeds)}

Expanded == ipc \in {"scan", "returned"} /\ requirements.exists

\* C13: for every package classified COLLECT_ALL the returned flag is
\* --collect-all=<the package's install directory, its import name>, never
\* the distribution name or any other name (for a call whose scan went
\* through the whole universe).
C13_ImportNameFlag ==
    (ipc = "returned" /\ requirements.exists /\ pending = {}) =>
        /\ iresult.flags = targets
        /\ Flags = {ImportName(pkg) : pkg \in CollectAll}

\* C14: get_recursive_dependencies terminates for every seed list and
\* every requirement relation, cyclic ones included, and no name has its
\* requirements queried more than once.
C14_ExpansionTerminates ==
    /\ <>(ipc \in {"scan", "returned"})
    /\ [](\A i, j \in 1..Len(queried) : queried[i] = queried[j] => i = j)

C14_Witness ==
    /\ ipc = "scan"
    /\ Name("onnx") \in universe
    /\ Name("onnxruntime") \in universe
    /\ Len(requirements.dependencies) = 2
    /\ requirements.dependencies[1] = requirements.dependencies[2]
    /\ Len(queried) >= 3

\* C15: get_recursive_dependencies returns exactly the set of normalized
\* package names reachable from the seeds through declared requirements:
\* every seed is a member, every requirement of a member with metadata is
\* a member, and nothing else is; a package without metadata is a member
\* that is not expanded.
C15_ExactFixedPoint ==
    Expanded =>
        /\ SeedNames \subseteq universe
        /\ DeclaredBy(universe) \subseteq universe
        /\ universe = Reachable(SeedNames)

(***************************************************************************)
(* The Naive Bayes classifier (inference.py)                               *)
(*                                                                         *)
(* A score is math.log of a product of quotients; the model keeps that     *)
(* product as the exact fraction num/den.  math.log is strictly            *)
(* increasing, so the order of two scores is the order of their fractions, *)
(* a score is <= 0 exactly when num <= den, and math.log fails for a       *)
(* fraction that is 0, as the division does for a denominator that is 0.   *)
(***************************************************************************)
MaxTrain == 4

Labels == {"COLLECT_SUBMODULES", "COLLECT_DATA"}

\* The feature lists given to train and predict: the empty one, one with
\* a repeated feature, and lists that share a feature.
FeatureBags ==
    { <<>>,
      <<"calls_import_module">>,
      <<"imports_os">>,
      <<"calls_import_module", "imports_os">>,
      <<"calls_import_module", "imports_os", "calls_import_module">> }

\* The classifier as one value
Clf(fc, tc, cc, lo, te, v) ==
    [feature_counts |-> fc, class_token_counts |-> tc, class_counts |-> cc,
     label_order |-> lo, total_examples |-> te, vocab |-> v]

\* d[k] += 1 on a defaultdict(int)
Inc(d, k) == IF k \in DOMAIN d THEN [d EXCEPT ![k] = @ + 1] ELSE d @@ (k :> 1)

\* d[k] read on a defaultdict: a missing key is created with the default
Touch(d, k, default) == IF k \in DOMAIN d THEN d ELSE d @@ (k :> default)

\* d.get(k, 0)
Get(d, k) == IF k \in DOMAIN d THEN d[k] ELSE 0

\* Line 30: self.class_counts[label] += 1
CountClassNever(cc, label) == cc

CountClass(cc, label) == Inc(cc, label)

\* Lines 33-36: the loop of train over the features
RECURSIVE TrainFeatures(_, _, _)
TrainFeatures(m, features, label) ==
    IF features = <<>> THEN m
    ELSE LET f == Head(features)
             fc == Touch(m.feature_counts, label, <<>>)
         IN  TrainFeatures(
               [m EXCEPT !.feature_counts = [fc EXCEPT ![label] = Inc(@, f)],
                         !.class_token_counts = Inc(@, label),
                         !.vocab = @ \cup {f}],
               Tail(features), label)

\* SimpleTextClassifier.train (lines 26-36)
Train(m, features, label) ==
    LET cc == CountClass(m.class_counts, label)
        lo == IF label \in DOMAIN cc /\ \A k \in 1..Len(m.label_order) : m.label_order[k] # label
              THEN Append(m.label_order, label)
              ELSE m.label_order
    IN  TrainFeatures([m EXCEPT !.class_counts = cc,
                                !.label_order = lo,
                                !.total_examples = @ + 1],
                      features, label)

\* Fractions
Frac(num, den) == [num |-> num, den |-> den]

Times(a, b) == Frac(a.num * b.num, a.den * b.den)

Greater(a, b) == a.num * b.den > b.num * a.den

\* Line 45: P(Class)
PriorUniform(m, label) == Frac(1, 1)

Prior(m, label) == Frac(m.class_counts[label], m.total_examples)

\* Lines 51-55: the product of (count + 1) / denominator over the features
RECURSIVE Likelihood(_, _, _)
Likelihood(counts, features, denominator) ==
    IF features = <<>> THEN Frac(1, 1)
    ELSE Times(Frac(Get(counts, Head(features)) + 1, denominator),
               Likelihood(counts, Tail(features), denominator))

Score(label, frac) == [label |-> label, num |-> frac.num, den |-> frac.den]

\* The loop of predict from the k-th label on (lines 43-57).  Reading
\* class_token_counts[label] and feature_counts[label] creates the missing
\* key; a denominator of 0 raises ZeroDivisionError at line 55.
RECURSIVE PredictLabels(_, _, _, _)
PredictLabels(m, k, features, done) ==
    IF k > Len(m.label_order) THEN [m |-> m, raised |-> FALSE, list |-> done]
    ELSE LET label == m.label_order[k]
             tc == Touch(m.class_token_counts, label, 0)
             denominator == tc[label] + Cardinality(m.vocab)
             fc == IF features = <<>> THEN m.feature_counts
                   ELSE Touch(m.feature_counts, label, <<>>)
             m1 == [m EXCEPT !.class_token_counts = tc, !.feature_counts = fc]
         IN  IF features # <<>> /\ denominator = 0
             THEN [m |-> m1, raised |-> TRUE, list |-> <<>>]
             ELSE PredictLabels(
                    m1, k + 1, features,
                    Append(done,
                           Score(label,
                                 Times(Prior(m, label),
                                       IF features = <<>> THEN Frac(1, 1)
                                       ELSE Likelihood(fc[label], features, denominator)))))

\* Line 59: sorted(scores.items(), key=score, reverse=True); the sort is
\* stable, equal scores stay in insertion order.
Tied(a, b) == ~Greater(a, b) /\ ~Greater(b, a)

Rank(list, i) ==
    1 + Cardinality({j \in 1..Len(list) : Greater(list[j], list[i])})
      + Cardinality({j \in 1..(i - 1) : Tied(list[j], list[i])})

Sorted(list) ==
    [r \in 1..Len(list) |-> list[CHOOSE i \in 1..Len(list) : Rank(list, i) = r]]

\* SimpleTextClassifier.train
train ==
    /\ total_examples < MaxTrain
    /\ \E features \in FeatureBags, label \in Labels :
         LET m == Train(Clf(feature_counts, class_token_counts, class_counts, label_order,
                            total_examples, vocab), features, label)
         IN  /\ feature_counts' = m.feature_counts
             /\ class_token_counts' = m.class_token_counts
             /\ class_counts' = m.class_counts
             /\ label_order' = m.label_order
             /\ total_examples' = m.total_examples
             /\ vocab' = m.vocab
             /\ trained' = Inc(trained, <<features, label>>)
    /\ scores' = NoScores
    /\ UNCHANGED <<pvars, gvars, avars, ivars, mvars>>

\* SimpleTextClassifier.predict (lines 38-59)
clf_predict ==
    /\ \E features \in FeatureBags :
         LET out == PredictLabels(Clf(feature_counts, class_token_counts, class_counts,
                                      label_order, total_examples, vocab), 1, features, <<>>)
         IN  /\ feature_counts' = out.m.feature_counts
             /\ class_token_counts' = out.m.class_token_counts
             /\ scores' = IF out.raised
                          THEN [state |-> "ZeroDivisionError", features |-> features, list |-> <<>>]
                          ELSE [state |-> "returned", features |-> features,
                                list |-> Sorted(out.list)]
    /\ UNCHANGED <<class_counts, label_order, total_examples, vocab, trained>>
    /\ UNCHANGED <<pvars, gvars, avars, ivars, mvars>>

ClassifierInit ==
    /\ ModulesIdle
    /\ PipelineIdle
    /\ GraphIdle
    /\ AuditIdle
    /\ IntrospectIdle
    /\ ClassifierIdle

ClassifierNext ==
    \/ train
    \/ clf_predict

SpecClassifier == ClassifierInit /\ [][ClassifierNext]_vars

(***************************************************************************)
(* Classifier: properties                                                  *)
(***************************************************************************)
Ranked == {scores.list[k].label : k \in 1..Len(scores.list)}

Pos(label) == CHOOSE k \in 1..Len(scores.list) : scores.list[k].label = label

\* C16: classifier monotonicity: for a model trained by n calls
\* train(F, A) and m calls train(F, B) with n > m >= 1 and nothing else,
\* predict(F) returns A before B, with a strictly greater score.
C16_Monotone ==
    \A F \in FeatureBags : \A A, B \in Labels :
        (/\ scores.state # "none"
         /\ scores.features = F
         /\ A # B
         /\ DOMAIN trained = {<<F, A>>, <<F, B>>}
         /\ trained[<<F, A>>] > trained[<<F, B>>])
        => /\ scores.state = "returned"
           /\ Ranked = {A, B}
           /\ Pos(A) < Pos(B)
           /\ Greater(scores.list[Pos(A)], scores.list[Pos(B)])

C16_Witness ==
    /\ scores.state = "returned"
    /\ scores.features = <<"calls_import_module", "imports_os", "calls_import_module">>
    /\ trained = (<<scores.features, "COLLECT_DATA">> :> 2)
                   @@ (<<scores.features, "COLLECT_SUBMODULES">> :> 1)
    /\ scores.list[1].label = "COLLECT_DATA"
    /\ scores.list[2].label = "COLLECT_SUBMODULES"

\* C17: predict is total: for a model built by one or more train calls
\* (empty feature lists included) and any feature list, predict raises no
\* arithmetic error and gives every trained label a finite score <= 0.
C17_PredictTotal ==
    (scores.state # "none" /\ total_examples >= 1) =>
        /\ scores.state = "returned"
        /\ Ranked = DOMAIN class_counts
        /\ \A k \in 1..Len(scores.list) :
             /\ scores.list[k].den > 0
             /\ scores.list[k].num > 0
             /\ scores.list[k].num <= scores.list[k].den

\* C18: classifier model invariant: after any sequence of train and
\* predict calls every label that is a key of feature_counts or of
\* class_token_counts is a key of class_counts.
C18_LabelsInClassCounts ==
    /\ DOMAIN feature_counts \subseteq DOMAIN class_counts
    /\ DOMAIN class_token_counts \subseteq DOMAIN class_counts

C18_Witness ==
    /\ scores.state = "returned"
    /\ scores.features # <<>>
    /\ DOMAIN class_counts = Labels
    /\ \E label \in DOMAIN class_token_counts :
         /\ class_token_counts[label] = 0
         /\ feature_counts[label] = <<>>
    /\ \E label \in DOMAIN class_token_counts : class_token_counts[label] > 0

(***************************************************************************)
(* Properties of the graph's edge list (graph.py)                          *)
(***************************************************************************)
SameTriple(a, b) == a.source = b.source /\ a.target = b.target /\ a.type = b.type

\* C19: the edge list never holds two edges with the same (source, target,
\* type) triple, and no step of the Builder or of the Oracle changes or
\* removes an edge that is already in the list: an add_edge whose triple is
\* present keeps the first edge with its confidence and reason.
C19_NoDuplicateEdges ==
    /\ [](\A i, j \in 1..Len(edges) : SameTriple(edges[i], edges[j]) => i = j)
    /\ [][IsPrefix(edges, edges')]_vars

\* A node whose literal is also a hidden import of its root package: the
\* Knowledge Base edge (0.95) was added first and the literal match (0.60)
\* for the same triple was refused.
C19_Witness ==
    /\ predicts >= 1
    /\ \E k \in 1..Len(edges) :
         /\ edges[k].type = "predicted"
         /\ edges[k].confidence = ConfKnowledgeBase
         /\ edges[k].target \in nodes[edges[k].source].literals
         /\ edges[k].target \in DOMAIN knowledge_base
         /\ edges[k].target # RootOf(edges[k].source)
         /\ \E z \in 1..Len(zones) : zones[z].source = edges[k].source /\ zones[z].resolved

\* C20: the Builder adds only static edges and predicted edges are added
\* only by predict; every predicted edge that a call of predict adds has as
\* its source the owner of a zone that is unresolved when the call starts,
\* so that a zone whose resolved flag is already true yields no edge, even
\* when the Knowledge Base changed since the zone was resolved.
C20_EdgeProvenance ==
    /\ [][predicts' = predicts =>
            \A k \in (Len(edges) + 1)..Len(edges') : edges'[k].type = "static"]_vars
    /\ [][predicts' = predicts + 1 =>
            \A k \in (Len(edges) + 1)..Len(edges') :
                /\ edges'[k].type = "predicted"
                /\ \E z \in 1..Len(zones) :
                      zones[z].source = edges'[k].source /\ ~zones[z].resolved]_vars

(***************************************************************************)
(* Properties of the Builder's scan (graph.py, _visit_node)                *)
(***************************************************************************)
\* The files of the tree that ast.parse accepts.
Parsed == {f \in tree : f.parses}

\* The positions of the plain import statements of file f, and of its
\* from-import statements.
PlainImports(f) == {i \in 1..Len(f.stmts) : f.stmts[i].k = "Import"}

FromImports(f) == {i \in 1..Len(f.stmts) : f.stmts[i].k = "ImportFrom"}

HasStaticEdge(source, target, reason) ==
    \E k \in 1..Len(edges) :
        edges[k] = Edge(source, target, "static", ConfStatic, reason)

\* A from-import of target stands in file f before position i.
FromImportedBefore(f, i, target) ==
    \E j \in FromImports(f) : j < i /\ f.stmts[j].module = target

\* A plain import of target stands in file f before position i.
ImportedBefore(f, i, target) ==
    \E j \in PlainImports(f) : j < i /\ \E a \in 1..Len(f.stmts[j].names) : f.stmts[j].names[a] = target

\* C21: after a scan, for every file and every name x.y of a plain import
\* statement in it the graph has the edge file -> x.y of type static with
\* confidence 1.0 and reason import_stmt.
C21_PlainImportEdge ==
    scans >= 1 =>
        \A f \in Parsed : \A i \in PlainImports(f) : \A a \in 1..Len(f.stmts[i].names) :
            HasStaticEdge(f.module, f.stmts[i].names[a], <<"import_stmt">>)

\* C21 as amended: the edge is there with type static and confidence 1.0;
\* its reason is import_stmt unless the file's first statement that names
\* x.y is a from-import, whose edge (reason from_import_stmt) is then the
\* one kept.
C21_PlainImportEdgeAmended ==
    scans >= 1 =>
        \A f \in Parsed : \A i \in PlainImports(f) : \A a \in 1..Len(f.stmts[i].names) :
            LET target == f.stmts[i].names[a]
                first == \E j \in FromImports(f) :
                            /\ f.stmts[j].module = target
                            /\ j < i
                            /\ ~ImportedBefore(f, j, target)
            IN  HasStaticEdge(f.module, target,
                              IF first THEN <<"from_import_stmt">> ELSE <<"import_stmt">>)

C21_Witness ==
    /\ scans >= 1
    /\ FilePlugins \in tree
    /\ HasStaticEdge(<<"plugins", "__init__">>, <<"json">>, <<"from_import_stmt">>)
    /\ HasStaticEdge(<<"plugins", "__init__">>, <<"abc">>, <<"import_stmt">>)

\* C28: after a scan, every from-import statement of a scanned file,
\* absolute or relative (from . import x included), has a static edge of its
\* own from the file's node with confidence 1.0 and reason from_import_stmt:
\* to its module when it names one, and otherwise to a target that no other
\* from-import of the file names.
C28_FromImportEdge ==
    scans >= 1 =>
        \A f \in Parsed : \A i \in FromImports(f) :
            \E k \in 1..Len(edges) :
                /\ edges[k].source = f.module
                /\ edges[k].type = "static"
                /\ edges[k].confidence = ConfStatic
                /\ edges[k].reason = <<"from_import_stmt">>
                /\ IF f.stmts[i].module # <<>>
                   THEN edges[k].target = f.stmts[i].module
                   ELSE \A j \in FromImports(f) : f.stmts[j].module # edges[k].target

\* C28 as amended: a from-import statement that names a module (absolute, or
\* relative as from .pkg import y) has the static edge file -> module with
\* confidence 1.0; its reason is from_import_stmt unless the file's first
\* statement that names the module is a plain import, whose edge (reason
\* import_stmt) is then the one kept.  A from-import that names no module
\* (from . import x) yields no edge: no edge has an empty target.
C28_FromImportEdgeAmended ==
    scans >= 1 =>
        /\ \A f \in Parsed : \A i \in FromImports(f) :
              LET target == f.stmts[i].module
                  plainFirst == \E j \in PlainImports(f) :
                                   /\ j < i
                                   /\ \E a \in 1..Len(f.stmts[j].names) :
                                         f.stmts[j].names[a] = target
                                   /\ ~FromImportedBefore(f, j, target)
              IN  target # <<>> =>
                    HasStaticEdge(f.module, target,
                                  IF plainFirst THEN <<"import_stmt">>
                                                ELSE <<"from_import_stmt">>)
        /\ \A k \in 1..Len(edges) : edges[k].target # <<>>

C28_Witness ==
    /\ scans >= 1
    /\ FilePandas \in tree
    /\ \E i \in FromImports(FilePandas) : FilePandas.stmts[i].module = <<>>
    /\ HasStaticEdge(<<"pandas", "__init__">>, <<"numpy">>, <<"from_import_stmt">>)
    /\ \A k \in 1..Len(edges) :
          edges[k].source = <<"pandas", "__init__">> => edges[k].target = <<"numpy">>

\* The dynamic-import calls of file f: attribute calls x.import_module(...)
\* and calls of the bare name __import__.
DynamicCalls(f) ==
    {i \in 1..Len(f.stmts) :
        /\ f.stmts[i].k = "Call"
        /\ \/ f.stmts[i].func = "Attribute" /\ f.stmts[i].id = "import_module"
           \/ f.stmts[i].func = "Name" /\ f.stmts[i].id = "__import__"}

FeatureOf(st) ==
    IF st.func = "Attribute" THEN "calls_import_module" ELSE "calls_dunder_import"

SnippetOf(st) == IF st.func = "Attribute" THEN "import_module" ELSE "__import__"

\* The modules named by the import statements of file f.
ImportTargets(f) ==
    UNION {{f.stmts[i].names[a] : a \in 1..Len(f.stmts[i].names)} : i \in PlainImports(f)}
        \cup ({f.stmts[i].module : i \in FromImports(f)} \ {<<>>})

\* C29: after a scan, every dynamic-import call of a scanned file has its
\* zone and its feature on the owning node, and no edge comes from such a
\* call: until predict runs every edge is static, goes from a scanned file
\* to a module named by an import statement of that file, and there are
\* exactly as many edges as (file, imported module) pairs.
C29_DynamicCallAddsNoEdge ==
    /\ scans >= 1 =>
          \A f \in Parsed : \A i \in DynamicCalls(f) :
              /\ FeatureOf(f.stmts[i]) \in nodes[f.module].features
              /\ \E z \in 1..Len(zones) :
                    /\ zones[z].source = f.module
                    /\ zones[z].line = f.stmts[i].line
                    /\ zones[z].code = SnippetOf(f.stmts[i])
    /\ predicts = 0 =>
          /\ \A k \in 1..Len(edges) :
                /\ edges[k].type = "static"
                /\ \E f \in Parsed :
                      edges[k].source = f.module /\ edges[k].target \in ImportTargets(f)
          /\ Len(edges) = Cardinality({<<f, t>> \in Parsed \X UNION {ImportTargets(g) : g \in Files} :
                                          scans >= 1 /\ t \in ImportTargets(f)})

C29_Witness ==
    /\ scans >= 1
    /\ predicts = 0
    /\ FileApp \in tree
    /\ \E i \in DynamicCalls(FileApp) : FileApp.stmts[i].func = "Name"
    /\ \E i \in DynamicCalls(FileApp) : FileApp.stmts[i].func = "Attribute"
    /\ Len(zones) >= 2
    /\ Len(edges) = 2

\* C35: a file that cannot be parsed does not stop the scan: after a scan
\* every file of the tree has its node, every file that parses has the
\* edges of its imports and the zones of its dynamic-import calls, and a
\* file that does not parse has its node but no feature, literal, edge or
\* zone.
C35_BuilderFailSoft ==
    scans >= 1 =>
        /\ \A f \in tree : f.module \in DOMAIN nodes
        /\ \A f \in Parsed :
              /\ \A t \in ImportTargets(f) :
                    \E k \in 1..Len(edges) : edges[k].source = f.module /\ edges[k].target = t
              /\ \A i \in DynamicCalls(f) :
                    \E z \in 1..Len(zones) :
                        zones[z].source = f.module /\ zones[z].line = f.stmts[i].line
        /\ \A f \in tree \ Parsed :
              /\ nodes[f.module].literals = {}
              /\ nodes[f.module].features = {}
              /\ \A k \in 1..Len(edges) : edges[k].source # f.module
              /\ \A z \in 1..Len(zones) : zones[z].source # f.module

\* A tree with the broken file and a file with imports and dynamic calls
\* has been scanned.
C35_Witness ==
    /\ scans >= 1
    /\ tree \ Parsed # {}
    /\ \E f \in Parsed : ImportTargets(f) # {} /\ DynamicCalls(f) # {}
    /\ \E f \in tree \ Parsed : f.module \in DOMAIN nodes /\ Len(f.stmts) >= 1
    /\ Len(edges) >= 1
    /\ Len(zones) >= 1

\* C40: scanning is idempotent: a call of scan_project that is not the
\* first, on the same builder and tree, leaves the nodes, the edges and the
\* list of zones as they were.
C40_ScanIdempotent ==
    [][(scans >= 1 /\ scans' = scans + 1) =>
          /\ nodes' = nodes
          /\ edges' = edges
          /\ zones' = zones]_vars

\* The attribute calls x.import_module(...) of file f on a line, and the
\* zones recorded for a node and a line with that snippet.
ImportModuleCalls(f, line) ==
    {i \in 1..Len(f.stmts) :
        /\ f.stmts[i].k = "Call"
        /\ f.stmts[i].func = "Attribute"
        /\ f.stmts[i].id = "import_module"
        /\ f.stmts[i].line = line}

ZonesAt(source, line, code) ==
    {z \in 1..Len(zones) :
        zones[z].source = source /\ zones[z].line = line /\ zones[z].code = code}

LinesOf(f) == {f.stmts[i].line : i \in {j \in 1..Len(f.stmts) : f.stmts[j].k = "Call"}}

\* C22: after the scan of a project the graph holds exactly one zone for
\* each importlib.import_module(...) call site, owned by the file's module
\* and carrying the call's line, and every zone is unresolved as long as
\* predict has not run.
C22_OneZonePerCallSite ==
    /\ scans = 1 =>
          \A f \in Parsed : \A line \in LinesOf(f) :
              Cardinality(ZonesAt(f.module, line, "import_module"))
                  = Cardinality(ImportModuleCalls(f, line))
    /\ predicts = 0 => \A z \in 1..Len(zones) : ~zones[z].resolved

C22_Witness ==
    /\ scans = 1
    /\ oracle = "ready"
    /\ predicts = 0
    /\ \E f \in Parsed : \E line \in LinesOf(f) : ImportModuleCalls(f, line) # {}
    /\ Len(zones) >= 2

(***************************************************************************)
(* Properties of the literal cross-reference (graph.py, predict)           *)
(***************************************************************************)
\* The pairs (N, L) of the cross-reference: N owns a zone that predict has
\* processed, L is a literal recorded on N, a key of the Knowledge Base and
\* not N's root package.
CrossReferences ==
    {<<zones[z].source, l>> : z \in {y \in 1..Len(zones) : zones[y].resolved},
                              l \in DOMAIN knowledge_base} \cap
    {p \in (DOMAIN nodes) \X (DOMAIN knowledge_base) :
        p[2] \in nodes[p[1]].literals /\ p[2] # RootOf(p[1])}

LiteralMatch(n, l) == Edge(n, l, "predicted", ConfLiteral, <<"oracle_literal_match", l>>)

\* The edges that the first step of predict's loop adds for node n: the
\* Knowledge Base's for a known root, the classifier's otherwise.
FirstStep(n) ==
    IF RootOf(n) \in DOMAIN knowledge_base
    THEN ApplyKnownWisdom(<<>>, n, RootOf(n), knowledge_base[RootOf(n)])
    ELSE PredictUnseenModule(<<>>, n, nodes[n])

InEdges(e) == \E k \in 1..Len(edges) : edges[k] = e

\* C30: after predict with a Knowledge Base, for every zone with owner N
\* and every literal L on N that is a Knowledge Base key other than N's
\* root package, the graph has the predicted edge N -> L with confidence
\* 0.60 and reason oracle_literal_match:L, on either path.
C30_LiteralCrossReference ==
    (predicts >= 1 /\ DOMAIN knowledge_base # {}) =>
        \A p \in CrossReferences : InEdges(LiteralMatch(p[1], p[2]))

\* C30 as amended: the graph has a predicted edge N -> L; it is the one
\* with confidence 0.60 and reason oracle_literal_match:L unless the first
\* step of the loop has already predicted N -> L (L is a hidden import the
\* Knowledge Base records for N's root), whose edge is then the one kept.
C30_LiteralCrossReferenceAmended ==
    (predicts >= 1 /\ DOMAIN knowledge_base # {}) =>
        \A p \in CrossReferences :
            LET first == FirstStep(p[1])
                hits == {k \in 1..Len(first) :
                            first[k].target = p[2] /\ first[k].type = "predicted"}
            IN  /\ \E k \in 1..Len(edges) :
                      /\ edges[k].source = p[1]
                      /\ edges[k].target = p[2]
                      /\ edges[k].type = "predicted"
                /\ IF hits = {}
                   THEN InEdges(LiteralMatch(p[1], p[2]))
                   ELSE /\ \A k \in hits : InEdges(first[k])
                        /\ ~InEdges(LiteralMatch(p[1], p[2]))

\* Both paths have produced a literal-match edge.
C30_Witness ==
    /\ predicts >= 1
    /\ \E p \in CrossReferences :
          RootOf(p[1]) \in DOMAIN knowledge_base /\ InEdges(LiteralMatch(p[1], p[2]))
    /\ \E p \in CrossReferences :
          RootOf(p[1]) \notin DOMAIN knowledge_base /\ InEdges(LiteralMatch(p[1], p[2]))

(***************************************************************************)
(* Properties of the two prediction paths (graph.py)                       *)
(***************************************************************************)
\* The owners of the zones that predict has processed.
ResolvedOwners ==
    {zones[z].source : z \in {y \in 1..Len(zones) : zones[y].resolved}} \cap DOMAIN nodes

\* The owners whose root package is a key of the Knowledge Base.
KnownOwners == {n \in ResolvedOwners : RootOf(n) \in DOMAIN knowledge_base}

\* The collect_submodules utilities of a signal, by position.
SubmoduleUtilities(signal) ==
    {i \in 1..Len(signal.utilities) : signal.utilities[i].function = "collect_submodules"}

\* The targets that the utilities of a signal stand for, for root package
\* root: "<arg>.*", with the root package for a utility without arguments.
UtilityTargets(signal, root) ==
    {Wildcard(IF signal.utilities[i].arguments # <<>>
              THEN signal.utilities[i].arguments[1].v ELSE root) :
        i \in {j \in SubmoduleUtilities(signal) :
                  signal.utilities[j].arguments = <<>> \/ signal.utilities[j].arguments[1].isStr}}

\* C31: after predict, for every processed zone whose owner N has a root in
\* the Knowledge Base, the graph has the predicted edge N -> h at 0.95 with
\* reason oracle_hook_knowledge_base[root] for every (string) hiddenimports
\* entry h and the predicted edge N -> "<arg>.*" at 0.90 for every
\* collect_submodules utility; a utility with another function adds no edge:
\* the utility edges of N are exactly those and every other predicted edge
\* of N is a hidden-import or literal-match one.
C31_KnowledgeBasePath ==
    predicts >= 1 =>
        \A n \in KnownOwners :
            LET root == RootOf(n)
                signal == knowledge_base[root]
                utility == <<"oracle_utility_signal:collect_submodules">>
            IN  /\ \A i \in 1..Len(signal.hiddenimports) :
                      signal.hiddenimports[i].isStr =>
                          InEdges(Edge(n, signal.hiddenimports[i].v, "predicted",
                                       ConfKnowledgeBase, <<"oracle_hook_knowledge_base", root>>))
                /\ \A t \in UtilityTargets(signal, root) :
                      InEdges(Edge(n, t, "predicted", ConfUtility, utility))
                /\ \A k \in 1..Len(edges) :
                      (edges[k].source = n /\ edges[k].type = "predicted") =>
                          \/ /\ edges[k].reason = utility
                             /\ edges[k].target \in UtilityTargets(signal, root)
                          \/ /\ edges[k].reason = <<"oracle_hook_knowledge_base", root>>
                             /\ \E i \in 1..Len(signal.hiddenimports) :
                                   signal.hiddenimports[i] = Str(edges[k].target)
                          \/ edges[k] = LiteralMatch(n, edges[k].target)

\* A signal with hidden imports, a collect_submodules utility and a utility
\* with another function has been applied.
C31_Witness ==
    /\ predicts >= 1
    /\ \E n \in KnownOwners :
          LET signal == knowledge_base[RootOf(n)] IN
          /\ \E i \in 1..Len(signal.hiddenimports) : signal.hiddenimports[i].isStr
          /\ UtilityTargets(signal, RootOf(n)) # {}
          /\ \E i \in 1..Len(signal.utilities) : i \notin SubmoduleUtilities(signal)
          /\ \E k \in 1..Len(edges) :
                edges[k].source = n /\ edges[k].confidence = ConfUtility

\* The zones of the Generalist path: the owner is a node with readable
\* source whose root package is not a key of the Knowledge Base, and a
\* model is loaded.
GeneralistZones ==
    {z \in 1..Len(zones) :
        /\ zones[z].source \in DOMAIN nodes
        /\ RootOf(zones[z].source) \notin DOMAIN knowledge_base
        /\ RunsClassifier(nodes[zones[z].source])}

\* The edge that the top-ranked label stands for on node n, if any.
LabelEdges(n) ==
    LET predictions == classifier.ranking[nodes[n].path]
        best_label == predictions[1]
        reason == <<"ml_naive_bayes", best_label>>
    IN  IF predictions = <<>> THEN {}
        ELSE IF best_label = "COLLECT_SUBMODULES" /\ IsPackageInit(nodes[n])
        THEN {Edge(n, Wildcard(n), "predicted", ConfSubmodules, reason)}
        ELSE IF best_label = "COLLECT_DATA"
        THEN {Edge(n, ResourceData, "predicted", ConfData, reason)}
        ELSE {}

\* C32: a call of predict leaves, for every zone of the Generalist path,
\* exactly the edge of the top-ranked label among the classifier's edges of
\* the owner N: N -> "N.*" at 0.82 for COLLECT_SUBMODULES on an __init__.py,
\* N -> "<resource_data>" at 0.75 for COLLECT_DATA, and none for
\* COLLECT_SUBMODULES on another file, HIDDEN_IMPORTS or any other label.
C32_GeneralistPath ==
    [][predicts' = predicts + 1 =>
          \A z \in GeneralistZones :
              {edges'[k] : k \in {j \in 1..Len(edges') :
                                    /\ edges'[j].source = zones[z].source
                                    /\ edges'[j].reason[1] = "ml_naive_bayes"}}
                  = LabelEdges(zones[z].source)]_vars

(***************************************************************************)
(* Properties of the Oracle's degraded modes (graph.py)                    *)
(***************************************************************************)
NothingLoaded == DOMAIN knowledge_base = {} /\ ~classifier.loaded

\* C23: when neither a Knowledge Base nor a model could be loaded, the
\* construction of the oracle and every call of predict leave the nodes and
\* the edges of the graph as the Builder produced them: no node or edge is
\* added, changed or removed, and every edge is a static one.
C23_OracleFailOpen ==
    /\ [][oracle' # oracle => nodes' = nodes /\ edges' = edges]_vars
    /\ [][(predicts' = predicts + 1 /\ NothingLoaded) =>
            nodes' = nodes /\ edges' = edges]_vars
    /\ []((oracle = "ready" /\ NothingLoaded) =>
            \A k \in 1..Len(edges) : edges[k].type = "static")

C23_Witness ==
    /\ oracle = "ready"
    /\ NothingLoaded
    /\ predicts >= 1
    /\ Len(zones) >= 1
    /\ Len(edges) >= 1

(***************************************************************************)
(* Properties of the Introspector's classification (introspect.py)         *)
(***************************************************************************)
\* What the install directory of a scanned package shows: many native
\* extension files, a reference to lazy_loader in __init__.py, a dynamic
\* import in the __init__.py of a package that is not on the allowlist.
HighNative(pkg) == Dirs[packages[pkg].path.path].natives > 15

LazyLoader(pkg) == Dirs[packages[pkg].path.path].init = "lazy_loader"

SuspiciousDynamic(pkg) ==
    /\ Dirs[packages[pkg].path.path].init = "dynamic"
    /\ \A safe \in well_known_safe : pkg # <<safe>>

\* C33: every scanned package has the strategy COLLECT_ALL exactly when it
\* resolves to an install directory and (a) the directory holds more than
\* 15 native extension files, or (b) its __init__.py references lazy_loader,
\* or (c) it is not on the allowlist and its __init__.py has a dynamic
\* import; every other package, one that does not resolve or resolves to a
\* file included, has STANDARD.
C33_CollectAllExactly ==
    \A pkg \in DOMAIN packages :
        LET r == packages[pkg].path IN
        packages[pkg].strategy =
            IF r.found /\ r.is_dir /\ (HighNative(pkg) \/ LazyLoader(pkg) \/ SuspiciousDynamic(pkg))
            THEN "COLLECT_ALL" ELSE "STANDARD"

\* A scan has met a package of each kind: exactly 15 native files, an
\* allowlisted package with a dynamic import, and COLLECT_ALL packages.
C33_Witness ==
    /\ ipc = "returned"
    /\ \E pkg \in DOMAIN packages :
          /\ packages[pkg].path.is_dir
          /\ Dirs[packages[pkg].path.path].natives = 15
          /\ packages[pkg].strategy = "STANDARD"
    /\ \E pkg \in DOMAIN packages : packages[pkg].path.is_dir /\ HighNative(pkg)
    /\ \E pkg \in DOMAIN packages :
          /\ packages[pkg].path.is_dir
          /\ Dirs[packages[pkg].path.path].init = "dynamic"
          /\ packages[pkg].strategy = "STANDARD"
    /\ \E pkg \in DOMAIN packages :
          packages[pkg].strategy = "STANDARD" /\ ~packages[pkg].path.is_dir

(***************************************************************************)
(* Properties of the shared lock file (crystal.py, introspect.py)          *)
(***************************************************************************)
\* C38: on one project directory the two writers of requirements.lock.json
\* keep each other's content: when determine_packaging_strategy writes its
\* lock, the modules and files the Auditor had recorded are still in the
\* file, and when a later audit dumps its manifest the Introspector's
\* seeds, universe and packages are still in the file.
C38_LockContentsKept ==
    /\ [][(ipc = "scan" /\ ipc' = "returned" /\ lock.kind = "manifest") =>
            /\ lock.modules \subseteq lock'.modules
            /\ lock.files \subseteq lock'.files]_vars
    /\ [][(dumps' = dumps + 1 /\ lock.kind = "harvest") =>
            /\ lock'.kind = "harvest"
            /\ lock'.seeds = lock.seeds
            /\ lock'.universe = lock.universe
            /\ lock'.packages = lock.packages]_vars

(***************************************************************************)
(* Properties of the Introspector's scan of the universe (introspect.py)   *)
(***************************************************************************)
\* C24: in determine_packaging_strategy a failure on one package of the
\* universe is skipped: when the call has returned, at most the failing
\* package is left unclassified, and the flag of every package classified
\* COLLECT_ALL is among the flags returned.
C24_PackageFailureSkipped ==
    (ipc = "returned" /\ requirements.exists) =>
        /\ Cardinality(pending) <= 1
        /\ \A pkg \in DOMAIN packages :
              packages[pkg].strategy = "COLLECT_ALL" =>
                  \E k \in 1..Len(iresult.flags) :
                      iresult.flags[k] = FlagTarget(pkg, packages[pkg].path)

(***************************************************************************)
(* BuildContext (pipeline.py) and the build modules (modules.py)           *)
(*                                                                         *)
(* A path is the sequence of its segments.  An --add-data entry            *)
(* f"{src}{os.pathsep}{dest}" is the pair of its two paths, a flag         *)
(* f"--name={value}" the pair of its name and its value.                   *)
(***************************************************************************)
Parent(path) == SubSeq(path, 1, Len(path) - 1)

Entry(src, dest) == [src |-> src, dest |-> dest]

Flag(name, value) == <<name, value>>

\* Path(pytron.__file__).resolve().parent.parent
PackageDir == <<"site-packages">>

Settings(crystal_mode, virtual_entry_point, force_hooks) ==
    [crystal_mode |-> crystal_mode, virtual_entry_point |-> virtual_entry_point,
     force_hooks |-> force_hooks]

\* BuildContext(...) with __post_init__ (lines 44-50)
BuildContext(script, out_name, settings, add_data, smart_assets) ==
    [built |-> TRUE, script |-> script, out_name |-> out_name, settings |-> settings,
     add_data |-> add_data, extra_args |-> <<>>, smart_assets |-> smart_assets,
     package_dir |-> PackageDir,
     script_dir |-> Parent(script),
     build_dir |-> <<"build">>,
     dist_dir |-> <<"dist", out_name>>]

\* What a project directory holds: "dir", "file" or "none" for the paths the
\* modules test with exists() / is_dir().
Project(settings_json, frontend_dist, frontend_build, resources, requirements_json, plugins) ==
    [settings_json |-> settings_json, frontend_dist |-> frontend_dist,
     frontend_build |-> frontend_build, resources |-> resources,
     requirements_json |-> requirements_json, plugins |-> plugins]

Projects ==
    { Project(FALSE, "none", "none", "none", FALSE, FALSE),
      Project(TRUE, "none", "dir", "dir", TRUE, FALSE),
      Project(TRUE, "dir", "dir", "file", TRUE, TRUE),
      Project(FALSE, "file", "none", "dir", TRUE, FALSE) }

SettingsChoices ==
    { Settings(FALSE, TRUE, FALSE),
      Settings(FALSE, TRUE, TRUE),
      Settings(TRUE, TRUE, TRUE),
      Settings(TRUE, FALSE, TRUE) }

Script == <<"project", "app.py">>

\* add_data as the command line or an earlier module left it
InitialData ==
    { <<>>,
      << Entry(<<"project", "extra">>, <<"extra">>),
         Entry(<<"project", "resources">>, <<"resources">>) >> }

ModuleClasses == {"AssetModule", "PluginModule", "HookModule"}

\* get_smart_assets (lines 47-59): the list it returns, or an exception,
\* which is logged
SmartAssets(ok, list) == [ok |-> ok, list |-> list]

SmartOutcomes ==
    { SmartAssets(FALSE, <<>>),
      SmartAssets(TRUE, <<>>),
      SmartAssets(TRUE, << Entry(<<"project", "data.bin">>, <<".">>) >>) }

\* AssetModule.prepare, step 1 (lines 17-29)
SettingsData(ctx, data) ==
    IF project.settings_json
    THEN Append(data, Entry(ctx.build_dir \o <<"pytron_assets", "settings.json">>, <<".">>))
    ELSE data

\* Step 2 (lines 32-44): the first of frontend/dist and frontend/build that
\* is a directory
FrontendDist(ctx) ==
    IF project.frontend_dist = "dir" THEN ctx.script_dir \o <<"frontend", "dist">>
    ELSE IF project.frontend_build = "dir" THEN ctx.script_dir \o <<"frontend", "build">>
    ELSE <<>>

RelativeTo(path, base) == SubSeq(path, Len(base) + 1, Len(path))

FrontendData(ctx, data) ==
    IF FrontendDist(ctx) # <<>>
    THEN Append(data, Entry(FrontendDist(ctx), RelativeTo(FrontendDist(ctx), ctx.script_dir)))
    ELSE data

\* Step 3 (lines 48-59)
SmartData(ctx, data, smart) ==
    IF ctx.smart_assets /\ smart.ok THEN data \o smart.list ELSE data

\* Step 4 (lines 61-65)
MandatoryResourcesOnly(ctx, data) ==
    IF project.resources = "dir"
    THEN << Entry(ctx.script_dir \o <<"resources">>, <<"resources">>) >>
    ELSE data

MandatoryResources(ctx, data) ==
    IF project.resources = "dir"
    THEN Append(data, Entry(ctx.script_dir \o <<"resources">>, <<"resources">>))
    ELSE data

\* AssetModule.prepare (lines 13-65).  Writing the cleaned settings file
\* (lines 24-27) may fail: the exception leaves prepare before anything is
\* appended.
asset_prepare ==
    /\ context.built
    /\ prepared["AssetModule"] = "no"
    /\ hpc \in {"idle", "done"}
    /\ before' = context.add_data
    /\ \E written \in BOOLEAN, smart \in SmartOutcomes :
         IF project.settings_json /\ ~written
         THEN /\ prepared' = [prepared EXCEPT !["AssetModule"] = "raised"]
              /\ UNCHANGED context
         ELSE /\ prepared' = [prepared EXCEPT !["AssetModule"] = "returned"]
              /\ context' = [context EXCEPT !.add_data =
                     MandatoryResources(context,
                       SmartData(context,
                         FrontendData(context, SettingsData(context, context.add_data)),
                         smart))]
    /\ UNCHANGED <<project, hpc, manifest, stages, smart_flags>>
    /\ UNCHANGED <<pvars, gvars, avars, ivars, cvars>>

\* PluginModule.prepare (lines 150-262): the plugins directory is bundled
\* and the package hooks of the plugins may rename the application; out_name
\* is synced back (line 259).
OutNames == {"app", "renamed"}

\* Lines 259-261: the values synced back from package_context
SyncBackRederiving(ctx, out_name) ==
    [ctx EXCEPT !.out_name = out_name, !.dist_dir = <<"dist", out_name>>]

SyncBack(ctx, out_name) == [ctx EXCEPT !.out_name = out_name]

plugin_prepare ==
    /\ context.built
    /\ prepared["PluginModule"] = "no"
    /\ hpc \in {"idle", "done"}
    /\ IF ~project.plugins
       THEN UNCHANGED context
       ELSE \E out_name \in OutNames :
              context' = SyncBack(
                 [context EXCEPT
                    !.add_data = Append(@, Entry(context.script_dir \o <<"plugins">>, <<"plugins">>))],
                 out_name)
    /\ prepared' = [prepared EXCEPT !["PluginModule"] = "returned"]
    /\ UNCHANGED <<project, hpc, manifest, stages, smart_flags, before>>
    /\ UNCHANGED <<pvars, gvars, avars, ivars, cvars>>

\* HookModule.prepare, lines 270-277
ShouldRun(ctx) == ctx.settings.force_hooks

Stage(name) == Append(stages, name)

\* Lines 267-305: nothing is done unless hooks are enabled; without a
\* requirements.json only the hook generator runs.
hook_start ==
    /\ context.built
    /\ prepared["HookModule"] = "no"
    /\ hpc = "idle"
    /\ IF ~ShouldRun(context)
       THEN /\ prepared' = [prepared EXCEPT !["HookModule"] = "returned"]
            /\ hpc' = "done"
       ELSE /\ hpc' = IF project.requirements_json THEN "vep" ELSE "hooks"
            /\ UNCHANGED prepared
    /\ UNCHANGED <<context, project, manifest, stages, smart_flags, before>>
    /\ UNCHANGED <<pvars, gvars, avars, ivars, cvars>>

\* Lines 316-333: the virtual entry point replaces context.script; a
\* failure of the generator is logged.
hook_vep ==
    /\ hpc = "vep"
    /\ hpc' = "audit"
    /\ IF context.settings.crystal_mode /\ context.settings.virtual_entry_point
       THEN \/ /\ context' = [context EXCEPT !.script = context.script_dir \o <<"_virtual_root.py">>]
               /\ stages' = Stage("vep")
            \/ /\ stages' = Stage("vep_failed")
               /\ UNCHANGED context
       ELSE UNCHANGED <<context, stages>>
    /\ UNCHANGED <<project, prepared, manifest, smart_flags, before>>
    /\ UNCHANGED <<pvars, gvars, avars, ivars, cvars>>

\* What the audit of lines 350-359 gives: the user declines, run_audit
\* returns None, run_audit raises, or run_audit returns a manifest.
NoAudit(kind) == [kind |-> kind, modules |-> {}]

AuditManifest(ms) == [kind |-> "manifest", modules |-> ms]

AuditOutcomes ==
    { NoAudit("declined"), NoAudit("None"), NoAudit("raised"),
      AuditManifest({}),
      AuditManifest({<<"numpy", "core">>, <<"skimage", "feature", "_texture">>, <<"app">>}) }

\* Line 394
ComplexPackages == {"skimage", "pandas", "numpy", "scipy", "torch", "cv2"}

\* Lines 391-406: a --collect-all flag for every complex root seen alive
\* that extra_args does not hold yet, in the set's iteration order.
RECURSIVE AuditFlags(_, _)
AuditFlags(args, roots) ==
    IF roots = <<>> THEN args
    ELSE AuditFlags(
           IF /\ Head(roots)[1] \in ComplexPackages
              /\ \A k \in 1..Len(args) : args[k] # Flag("--collect-all", Head(roots))
           THEN Append(args, Flag("--collect-all", Head(roots)))
           ELSE args,
           Tail(roots))

\* Lines 412-415: whatever the audit gave, prepare goes on with the oracle
\* stage.
AfterAuditFatal(outcome) == IF outcome.kind \in {"None", "raised"} THEN "hooks" ELSE "oracle"

AfterAudit(outcome) == "oracle"

\* Lines 335-413: the audit of crystal mode; whatever goes wrong inside is
\* logged by the handler of lines 412-413.
hook_audit ==
    /\ hpc = "audit"
    /\ IF context.settings.crystal_mode
       THEN \E outcome \in AuditOutcomes :
              /\ manifest' = outcome
              /\ hpc' = AfterAudit(outcome)
              /\ stages' = Stage("audit")
              /\ IF outcome.kind = "manifest" /\ outcome.modules # {}
                 THEN \E order \in Orders({RootOf(m) : m \in outcome.modules}) :
                        context' = [context EXCEPT !.extra_args = AuditFlags(@, order)]
                 ELSE UNCHANGED context
       ELSE /\ hpc' = "oracle"
            /\ UNCHANGED <<context, manifest, stages>>
    /\ UNCHANGED <<project, prepared, smart_flags, before>>
    /\ UNCHANGED <<pvars, gvars, avars, ivars, cvars>>

\* The brain/model.json files met by the hook module
InstalledModels ==
    {NoModel, Model(Uniform(<<"COLLECT_DATA", "COLLECT_SUBMODULES">>))}

\* The Knowledge Bases that the installation may ship: those above, and one
\* that lists a module whose name starts with "collect_" as a hidden import.
SignalCollect ==
    [hiddenimports |-> << Str(<<"collect_env">>), Str(<<"json">>) >>,
     utilities |-> <<>>]

InstalledBrains == KnowledgeBases \cup {(<<"plugins">> :> SignalCollect)}

\* Lines 417-424: GraphBuilder(script_dir).scan_project() and
\* DependencyOracle(graph); an exception ends the stage (lines 482-483).
hook_scan ==
    /\ hpc = "oracle"
    /\ \/ /\ \E order \in Orders(tree) :
               LET g == ScanFiles(Graph(<<>>, <<>>, <<>>), order)
               IN  /\ nodes' = g.nodes
                   /\ edges' = g.edges
                   /\ zones' = g.zones
          /\ scans' = scans + 1
          /\ oracle' = "ready"
          /\ knowledge_base' \in InstalledBrains
          /\ classifier' \in InstalledModels
          /\ hpc' = "predict"
          /\ UNCHANGED stages
       \/ /\ stages' = Stage("oracle_failed")
          /\ hpc' = "hooks"
          /\ UNCHANGED <<nodes, edges, zones, scans, oracle, knowledge_base, classifier>>
    /\ UNCHANGED <<tree, injected, predicts, unseen_calls, clf_calls>>
    /\ UNCHANGED <<context, project, prepared, manifest, smart_flags, before>>
    /\ UNCHANGED <<pvars, avars, ivars, cvars>>

\* Line 441
StartsWithCollect(target) ==
    target[1] \in {"collect_all", "collect_submodules", "collect_data", "collect_env"}

\* Lines 429-451: the flag of a predicted edge
EdgeFlagsOfAll(e) ==
    IF e.target[Len(e.target)] = "*" THEN {Flag("--collect-submodules", Parent(e.target))}
    ELSE IF e.target = ResourceData THEN {Flag("--collect-all", RootOf(e.source))}
    ELSE IF StartsWithCollect(e.target) THEN {}
    ELSE {Flag("--hidden-import", e.target)}

EdgeFlags(e) ==
    IF e.type # "predicted" THEN {}
    ELSE IF e.target[Len(e.target)] = "*" THEN {Flag("--collect-submodules", Parent(e.target))}
    ELSE IF e.target = ResourceData THEN {Flag("--collect-all", RootOf(e.source))}
    ELSE IF StartsWithCollect(e.target) THEN {}
    ELSE {Flag("--hidden-import", e.target)}

\* Lines 426-454: smart_flags, without duplicates

SmartFlags(es) == UNION {EdgeFlags(es[k]) : k \in 1..Len(es)}

\* Lines 426-463: oracle.predict(), then the flags of the predicted edges
\* are added to extra_args in the order of list(set(...)).
hook_predict ==
    /\ hpc = "predict"
    /\ hpc' = "hooks"
    /\ LET st == Predict([edges |-> edges, zones |-> zones,
                          unseen |-> unseen_calls, clf |-> clf_calls])
       IN  /\ edges' = st.edges
           /\ zones' = st.zones
           /\ unseen_calls' = st.unseen
           /\ clf_calls' = st.clf
           /\ smart_flags' = SmartFlags(st.edges)
           /\ \E order \in Orders(SmartFlags(st.edges)) :
                 context' = [context EXCEPT !.extra_args = @ \o order]
    /\ predicts' = predicts + 1
    /\ stages' = Stage("oracle")
    /\ UNCHANGED <<tree, nodes, oracle, knowledge_base, classifier, scans, injected>>
    /\ UNCHANGED <<project, prepared, manifest, before>>
    /\ UNCHANGED <<pvars, avars, ivars, cvars>>

\* Lines 485-495: generate_nuclear_hooks, outside every try block, then the
\* hooks directory is added to extra_args.
hook_generate ==
    /\ hpc = "hooks"
    /\ hpc' = "done"
    /\ \/ /\ context' = [context EXCEPT !.extra_args =
                  Append(@, Flag("--additional-hooks-dir", context.build_dir \o <<"nuclear_hooks">>))]
          /\ prepared' = [prepared EXCEPT !["HookModule"] = "returned"]
          /\ stages' = Stage("hooks")
       \/ /\ prepared' = [prepared EXCEPT !["HookModule"] = "raised"]
          /\ stages' = Stage("hooks_failed")
          /\ UNCHANGED context
    /\ UNCHANGED <<project, manifest, smart_flags, before>>
    /\ UNCHANGED <<pvars, gvars, avars, ivars, cvars>>

\* The .py files of the project directories
ProjectTrees == {{FilePandas}, {FilePlugins}}

ModulesInit ==
    /\ PipelineIdle
    /\ AuditIdle
    /\ IntrospectIdle
    /\ ClassifierIdle
    /\ tree \in ProjectTrees
    /\ nodes = <<>>
    /\ edges = <<>>
    /\ zones = <<>>
    /\ oracle = "none"
    /\ knowledge_base = EmptyKB
    /\ classifier = NoModel
    /\ scans = 0
    /\ injected = 0
    /\ predicts = 0
    /\ unseen_calls = {}
    /\ clf_calls = {}
    /\ context \in {BuildContext(Script, "app", s, d, a) :
                       s \in SettingsChoices, d \in InitialData, a \in BOOLEAN}
    /\ project \in Projects
    /\ prepared = [m \in ModuleClasses |-> "no"]
    /\ hpc = "idle"
    /\ manifest = NoManifest
    /\ stages = <<>>
    /\ smart_flags = {}
    /\ before = <<>>

ModulesNext ==
    \/ asset_prepare
    \/ plugin_prepare
    \/ hook_start
    \/ hook_vep
    \/ hook_audit
    \/ hook_scan
    \/ hook_predict
    \/ hook_generate

SpecModules == ModulesInit /\ [][ModulesNext]_vars

(***************************************************************************)
(* Properties of the build modules (modules.py)                            *)
(***************************************************************************)
AuditFailed == manifest.kind \in {"None", "raised"}

StagePositions(names) == {i \in 1..Len(stages) : stages[i] \in names}

ExtraArgs == {context.extra_args[k] : k \in 1..Len(context.extra_args)}

\* C25: in HookModule.prepare with crystal mode on, an audit that returns
\* None or raises does not end prepare: the step that records such an audit
\* leaves the context and the outcome of prepare alone and goes on to the
\* oracle stage; when prepare is over the oracle stage has run after the
\* audit, the flags it computed are in extra_args, and prepare has failed
\* only if the hook generator did.
C25_AuditFailureNotFatal ==
    /\ [][(hpc = "audit" /\ manifest'.kind \in {"None", "raised"}) =>
            /\ hpc' = "oracle"
            /\ prepared' = prepared
            /\ context' = context]_vars
    /\ []((AuditFailed /\ hpc = "done") =>
            /\ context.settings.crystal_mode
            /\ \E i \in StagePositions({"audit"}) :
                  \E j \in StagePositions({"oracle", "oracle_failed"}) : i < j
            /\ (StagePositions({"oracle"}) # {} =>
                  /\ smart_flags = SmartFlags(edges)
                  /\ smart_flags \subseteq ExtraArgs)
            /\ (prepared["HookModule"] = "raised" => stages[Len(stages)] = "hooks_failed"))

C25_Witness ==
    /\ hpc = "done"
    /\ manifest.kind = "raised"
    /\ prepared["HookModule"] = "returned"
    /\ Cardinality(smart_flags) >= 2
    /\ smart_flags \subseteq ExtraArgs

\* The flag that the claimed mapping gives for a predicted edge.
ClaimedFlag(e) ==
    IF e.target[Len(e.target)] = "*"
    THEN <<"--collect-submodules", SubSeq(e.target, 1, Len(e.target) - 1)>>
    ELSE IF e.target = <<"<resource_data>">> THEN <<"--collect-all", <<e.source[1]>> >>
    ELSE <<"--hidden-import", e.target>>

PredictedIn(es) == {k \in 1..Len(es) : es[k].type = "predicted"}

\* What a step has appended to extra_args.
Appended ==
    {context'.extra_args[k] : k \in (Len(context.extra_args) + 1)..Len(context'.extra_args)}

\* The step of HookModule.prepare that ends a successful oracle stage.
OracleStageEnds == hpc = "predict" /\ hpc' = "hooks"

\* C34: the step that ends a successful oracle stage appends to extra_args
\* exactly the flags of the predicted edges of the graph, each once:
\* --collect-submodules=<pkg> for a target "<pkg>.*", --collect-all=<root of
\* the source> for "<resource_data>", --hidden-import=<target> for any
\* other target; static edges contribute nothing.
C34_HintAggregation ==
    [][OracleStageEnds =>
          /\ IsPrefix(context.extra_args, context'.extra_args)
          /\ Appended = {ClaimedFlag(edges'[k]) : k \in PredictedIn(edges')}
          /\ Len(context'.extra_args) = Len(context.extra_args) + Cardinality(Appended)]_vars

\* C34 as amended: as above, except that a predicted edge whose target
\* starts with "collect_" contributes no flag.
C34_HintAggregationAmended ==
    [][OracleStageEnds =>
          /\ IsPrefix(context.extra_args, context'.extra_args)
          /\ Appended = {ClaimedFlag(edges'[k]) :
                            k \in {j \in PredictedIn(edges') :
                                      edges'[j].target[1] # "collect_env"}}
          /\ Len(context'.extra_args) = Len(context.extra_args) + Cardinality(Appended)]_vars

\* The oracle stage has ended with a flag of each kind in extra_args, with
\* static edges in the graph and a predicted edge to a collect_ target.
C34_Witness ==
    /\ hpc \in {"hooks", "done"}
    /\ stages # <<>> /\ stages[Len(stages)] \in {"oracle", "hooks", "hooks_failed"}
    /\ StagePositions({"oracle"}) # {}
    /\ \E k \in 1..Len(edges) : edges[k].type = "static"
    /\ \E k \in PredictedIn(edges) : edges[k].target[1] = "collect_env"
    /\ \E k \in PredictedIn(edges) :
          edges[k].target[1] # "collect_env" /\ ClaimedFlag(edges[k]) \in ExtraArgs
    /\ <<"--hidden-import", <<"collect_env">> >> \notin ExtraArgs

\* The derived path fields of a BuildContext
Derived(ctx) == <<ctx.package_dir, ctx.script_dir, ctx.build_dir, ctx.dist_dir>>

\* C26: the derived path fields package_dir, script_dir, build_dir and
\* dist_dir keep the values __post_init__ gave them: no prepare of a module
\* changes any of them, whatever it does to the other fields.
C26_DerivedPathsReadOnly ==
    /\ [][context.built => Derived(context') = Derived(context)]_vars
    /\ [](context.built =>
            Derived(context) = <<PackageDir, Parent(Script), <<"build">>, <<"dist", "app">> >>)

C26_Witness ==
    /\ \A m \in ModuleClasses : prepared[m] = "returned"
    /\ context.script # Script
    /\ context.out_name = "renamed"
    /\ context.dist_dir = <<"dist", "app">>
    /\ context.script_dir = Parent(Script)

\* C39: throughout the run dist_dir is dist/<out_name>: after a module has
\* changed out_name (PluginModule.prepare writes back the name a plugin's
\* package hook chose), the directory where post_build steps look for the
\* built executable is still the one of the current out_name.
C39_DistDirFollowsOutName ==
    context.built => context.dist_dir = <<"dist", context.out_name>>

ResourcesEntry == Entry(context.script_dir \o <<"resources">>, <<"resources">>)

\* C27: when <script_dir>/resources is a directory, add_data holds the entry
\* "<script_dir>/resources<os.pathsep>resources" once AssetModule.prepare
\* has returned, and prepare only appends: what add_data held before the
\* call is still there, in its place.
C27_MandatoryResources ==
    /\ []((context.built /\ prepared["AssetModule"] = "returned" /\ project.resources = "dir") =>
            \E k \in 1..Len(context.add_data) :
                k > Len(before) /\ context.add_data[k] = ResourcesEntry)
    /\ [][(context.built /\ prepared'["AssetModule"] # prepared["AssetModule"]) =>
            IsPrefix(context.add_data, context'.add_data)]_vars

C27_Witness ==
    /\ prepared["AssetModule"] = "returned"
    /\ project.resources = "dir"
    /\ before # <<>>
    /\ Len(context.add_data) >= Len(before) + 3

====
